---- MODULE Spec2Model ----
(***************************************************************************)
(* Model of the autotune-app profile reconciliation pipeline.              *)
(*                                                                         *)
(*   AutotuneService.apply_recommendations   (services/autotune_service.py)*)
(*   NightscoutService.get_historical_data   (services/nightscout_service.py)*)
(*   AutotuneService.run_analysis with AutotuneClient.run_autotune       *)
(*                                           (clients/autotune_client.py)  *)
(*   NightscoutService.sync_profile with NightscoutClient.update_profile   *)
(*                                           (clients/nightscout_client.py)*)
(*                                                                         *)
(*   NightscoutClient construction and get_profile                         *)
(*                                           (clients/nightscout_client.py)*)
(*                                                                         *)
(* Each has its own specification (Spec, SpecHistory, SpecTune, SpecSync,  *)
(* SpecClient); the variables of the other components stay at their idle   *)
(* values.  SpecChain runs apply_recommendations several times in a row,   *)
(* SpecThreads runs it in two threads over one heap.                       *)
(*                                                                         *)
(* Python objects live in a heap: a sequence of objects whose index is the *)
(* object's identity.  Pydantic models and lists are mutable objects; str, *)
(* int, float and None are immutable values stored inline.  Strings are    *)
(* sequences of one-character strings so that split(":") and int() can be  *)
(* computed as Python computes them.  Floats are modelled by integers (the *)
(* code only copies and compares them with zero).                          *)
(***************************************************************************)
EXTENDS Integers, Sequences, FiniteSets, TLC

VARIABLES
    heap,       \* the Python heap: Seq of objects, address = index
    profile,    \* address of the caller's ProfileStore (argument `profile`)
    rec,        \* recommendations.result (AutotuneResult), read-only input
    updated,    \* local `updated_profile`: address, or 0 before the copy
    pc,         \* position inside apply_recommendations
    idx,        \* position of the running for-loop (1-based)
    exc,        \* exception that left the call, or "none"
    orig,       \* value of the caller's profile when the call started
    retval,     \* value of the returned profile at the moment of return
    wrote,      \* which side the caller wrote to after the return
    hpc,        \* position inside get_historical_data
    days,       \* argument `days`
    clock,      \* the wall clock read by datetime.now(), in seconds
    svc_end,    \* the service's local `end_date`
    cli_end,    \* the client's local `end_date`
    raw_entries,     \* entries_raw as returned by the client
    raw_treatments,  \* treatments_raw as returned by the client
    entries,         \* local list `entries`
    treatments,      \* local list `treatments`
    hidx,            \* position of the running validation loop
    hexc,            \* exception that left get_historical_data, or "none"
    sent,            \* the queries sent to the store, in order, with outcome
    hresult,         \* the returned HistoricalData
    tpc,        \* per run_analysis invocation: its position
    tdays,      \* per invocation: argument `days`
    tname,      \* per invocation: argument `profile_name`
    tdir,       \* per invocation: its local `tmpdir`, or 0 before mkdtemp
    tproc,      \* per invocation: what the external process did
    truns,      \* per invocation: how often subprocess.run was called
    tread,      \* per invocation: whether the output file was read
    tdata,      \* per invocation: the parsed output (`recommendations`)
    texc,       \* per invocation: the exception in flight or raised
    tresult,    \* per invocation: the returned AutotuneRecommendations
    dirs,       \* the temporary directories that exist
    files,      \* the files that exist, each with its directory
    spc,        \* position inside sync_profile / update_profile
    sname,      \* argument `profile_name`
    sprofile,   \* argument `profile_store` of sync_profile
    sdata,      \* local `profile_data` (the dumped profile)
    sreply,     \* what the store answered to the fetch
    scur,       \* local `current_profile`
    sexc,       \* the exception that left the call
    sreqs,      \* the requests sent to the store, in order
    sresult,    \* the value update_profile returned
    cpc,        \* position inside client construction / get_profile
    curl,       \* scheme of the `url` the client is constructed with
    chow,       \* how the constructor is called: by keyword or by position
    cname,      \* argument `profile_name` of get_profile
    cstatuses,  \* status of each attempt of the request, in order
    creply,     \* the JSON body of the response
    cexc,       \* the exception that left the call
    cavail,     \* the profile names listed in the error message
    cret,       \* the value get_profile returned
    round,      \* which call of a sequence of apply_recommendations calls
    recs,       \* the recommendations the calls of the sequence are given
    given,      \* address of the profile the first call is given
    results,    \* the outcomes of the finished calls, in order
    parked      \* the locals of the thread that is not running

vars == <<heap, profile, rec, updated, pc, idx, exc, orig, retval, wrote,
          hpc, days, clock, svc_end, cli_end, raw_entries, raw_treatments,
          entries, treatments, hidx, hexc, sent, hresult,
          tpc, tdays, tname, tdir, tproc, truns, tread, tdata, texc, tresult,
          dirs, files,
          spc, sname, sprofile, sdata, sreply, scur, sexc, sreqs, sresult,
          cpc, curl, chow, cname, cstatuses, creply, cexc, cavail, cret,
          round, recs, given, results, parked>>

applyVars == <<heap, profile, rec, updated, pc, idx, exc, orig, retval, wrote>>
histVars == <<hpc, days, clock, svc_end, cli_end, raw_entries, raw_treatments,
              entries, treatments, hidx, hexc, sent, hresult>>

tuneVars == <<tpc, tdays, tname, tdir, tproc, truns, tread, tdata, texc, tresult,
              dirs, files>>

syncVars == <<spc, sname, sprofile, sdata, sreply, scur, sexc, sreqs, sresult>>

clientVars == <<cpc, curl, chow, cname, cstatuses, creply, cexc, cavail, cret>>

callVars == <<round, recs, given, results, parked>>

\* what the steps of one component leave alone: the other components
outsideApply == <<histVars, tuneVars, syncVars, clientVars, callVars>>
outsideHist == <<applyVars, tuneVars, syncVars, clientVars, callVars>>
outsideTune == <<applyVars, histVars, syncVars, clientVars, callVars>>
outsideSync == <<applyVars, histVars, tuneVars, clientVars, callVars>>
outsideClient == <<applyVars, histVars, tuneVars, syncVars, callVars>>
outsideCall == <<histVars, tuneVars, syncVars, clientVars>>

\* None, for Optional[float] fields whose valid values are all > 0
None == 0 - 1

\* ------------------------------------------------------------------ bounds
MaxSched == 2       \* longest carbratio / sens / basal schedule of a profile
MaxBasal == 2       \* longest basalprofile of a recommendation
MaxRaw == 2         \* longest raw list a store query returns
MaxDelay == 1       \* most seconds that pass between two clock reads
NumCalls == 2       \* invocations of run_analysis, possibly concurrent

\* ------------------------------------------------------------ Python str
Digits == {"0", "1", "2", "3", "4", "5", "6", "7", "8", "9"}

DigitVal(c) ==
    CASE c = "0" -> 0 [] c = "1" -> 1 [] c = "2" -> 2 [] c = "3" -> 3
      [] c = "4" -> 4 [] c = "5" -> 5 [] c = "6" -> 6 [] c = "7" -> 7
      [] c = "8" -> 8 [] c = "9" -> 9

\* str.split(sep) for a one-character separator: always at least one part,
\* an empty string gives [""], adjacent separators give empty parts.
RECURSIVE SplitFrom(_, _, _, _)
SplitFrom(s, sep, i, cur) ==
    IF i > Len(s) THEN <<cur>>
    ELSE IF s[i] = sep THEN <<cur>> \o SplitFrom(s, sep, i + 1, <<>>)
    ELSE SplitFrom(s, sep, i + 1, Append(cur, s[i]))

Split(s, sep) == SplitFrom(s, sep, 1, <<>>)

RECURSIVE DigitsValue(_, _)
DigitsValue(s, acc) ==
    IF s = <<>> THEN acc ELSE DigitsValue(Tail(s), acc * 10 + DigitVal(Head(s)))

AllDigits(s) == Len(s) > 0 /\ \A i \in 1..Len(s) : s[i] \in Digits

\* int(str): an optional sign followed by one or more decimal digits.
\* (Surrounding whitespace and digit-group underscores, which int() also
\* accepts, are outside the alphabet of the modelled inputs.)
IntParses(s) ==
    \/ AllDigits(s)
    \/ Len(s) > 1 /\ s[1] \in {"-", "+"} /\ AllDigits(Tail(s))

IntValue(s) ==
    IF s[1] = "-" THEN 0 - DigitsValue(Tail(s), 0)
    ELSE IF s[1] = "+" THEN DigitsValue(Tail(s), 0)
    ELSE DigitsValue(s, 0)

\* bool(x) of an Optional[float]: None and 0.0 are falsy.
Truthy(x) == x # None /\ x # 0

\* ------------------------------------------------------------ the heap
\* list(...) of freshly constructed objects: the objects, then the list.
AllocList(h, objs) ==
    [heap |-> h \o objs
                \o << [kind |-> "list",
                       items |-> [i \in 1..Len(objs) |-> Len(h) + i]] >>,
     addr |-> Len(h) + Len(objs) + 1]

\* The entry objects of the list at address l, in list order.
ListView(h, l) == [i \in 1..Len(h[l].items) |-> h[h[l].items[i]]]

\* The value of the ProfileStore at address p, every reference followed:
\* what a field-by-field comparison of two profiles compares.
View(h, p) ==
    [dia         |-> h[p].dia,
     carbratio   |-> ListView(h, h[p].carbratio),
     sens        |-> ListView(h, h[p].sens),
     basal       |-> ListView(h, h[p].basal),
     target_low  |-> ListView(h, h[p].target_low),
     target_high |-> ListView(h, h[p].target_high),
     timezone    |-> h[p].timezone,
     units       |-> h[p].units]

Schedules == {"carbratio", "sens", "basal", "target_low", "target_high"}

SchedAddr(h, p, f) ==
    CASE f = "carbratio"   -> h[p].carbratio
      [] f = "sens"        -> h[p].sens
      [] f = "basal"       -> h[p].basal
      [] f = "target_low"  -> h[p].target_low
      [] f = "target_high" -> h[p].target_high

\* Addresses of the mutable objects that make up the profile at p.
Reach(h, p) ==
    {p} \cup {SchedAddr(h, p, f) : f \in Schedules}
        \cup UNION {{h[SchedAddr(h, p, f)].items[i] :
                        i \in 1..Len(h[SchedAddr(h, p, f)].items)} : f \in Schedules}

\* ------------------------------------------------- models/nightscout.py
DigitChar(n) ==
    CASE n = 0 -> "0" [] n = 1 -> "1" [] n = 2 -> "2" [] n = 3 -> "3"
      [] n = 4 -> "4" [] n = 5 -> "5" [] n = 6 -> "6" [] n = 7 -> "7"
      [] n = 8 -> "8" [] n = 9 -> "9"

Fmt2(n) == << DigitChar(n \div 10), DigitChar(n % 10) >>

\* "HH:00" for the i-th slot of a day split in six-hour slots.
SlotTime(i) == Fmt2((6 * (i - 1)) % 24) \o <<":">> \o Fmt2(0)

CarbRatioEntry(i) ==
    [kind |-> "entry", time |-> SlotTime(i), value |-> 20 + i,
     timeAsSeconds |-> 21600 * (i - 1)]

SensitivityEntry(i) ==
    [kind |-> "entry", time |-> SlotTime(i), value |-> 50 + i,
     timeAsSeconds |-> 21600 * (i - 1)]

\* value >= 0 admits a zero rate; timeAsSeconds is only constrained to be
\* >= 0, so a stored value need not agree with `time`.
BasalScheduleEntry(i) ==
    [kind |-> "entry", time |-> SlotTime(i), value |-> i - 1,
     timeAsSeconds |-> 21600 * (i - 1) + 7]

TargetEntry(i, v) ==
    [kind |-> "entry", time |-> SlotTime(i), value |-> v, low |-> v - 10,
     high |-> v + 10, timeAsSeconds |-> 21600 * (i - 1)]

\* A validated ProfileStore with nC carb-ratio, nS sensitivity and nB basal
\* entries, laid out in a fresh heap; every entry is its own object.
ProfileStore(nC, nS, nB) ==
    LET c  == AllocList(<<>>, [i \in 1..nC |-> CarbRatioEntry(i)])
        s  == AllocList(c.heap, [i \in 1..nS |-> SensitivityEntry(i)])
        b  == AllocList(s.heap, [i \in 1..nB |-> BasalScheduleEntry(i)])
        tl == AllocList(b.heap, <<TargetEntry(1, 100)>>)
        th == AllocList(tl.heap, <<TargetEntry(1, 120), TargetEntry(2, 140)>>)
    IN  [heap |-> Append(th.heap,
                    [kind |-> "profile", dia |-> 5,
                     carbratio |-> c.addr, sens |-> s.addr, basal |-> b.addr,
                     target_low |-> tl.addr, target_high |-> th.addr,
                     timezone |-> "UTC", units |-> "mg/dL"]),
         addr |-> Len(th.heap) + 1]

\* --------------------------------------------------- models/autotune.py
\* AutotuneBasalEntry.start is declared `str` with no pattern: every string
\* validates.  The pool holds well-formed and malformed start times.
StartPool ==
    << <<"0","6",":","3","0",":","5","9">>,     \* HH:MM:SS, seconds set
       <<"0","0",":","0","0",":","0","0">>,     \* midnight
       <<"1","2",":","0","5">>,                 \* HH:MM, no seconds
       <<"0","6","3","0">>,                     \* no separator
       <<"a","b",":","0","0",":","0","0">>,     \* hours not a number
       <<"-","1",":","0","0",":","0","0">>,     \* negative hours
       <<"2","3",":","5","9",":","0","7">> >>   \* last minute of the day

AutotuneBasalEntry(k) ==
    [start |-> StartPool[k], minutes |-> 60, rate |-> k - 1]

RECURSIVE SeqsUpTo(_, _)
SeqsUpTo(S, n) ==
    IF n = 0 THEN {<<>>}
    ELSE LET shorter == SeqsUpTo(S, n - 1)
         IN  shorter \cup {Append(q, x) : q \in shorter, x \in S}

\* AutotuneResult: carb_ratio > 0, sens > 0, dia None or > 0.
AutotuneResults ==
    {[basalprofile |-> [i \in 1..Len(q) |-> AutotuneBasalEntry(q[i])],
      carb_ratio |-> 12, sens |-> 55, dia |-> d] :
        q \in SeqsUpTo(1..Len(StartPool), MaxBasal), d \in {None, 6}}

\* ------------------------------------- services/autotune_service.py
\* Faulty variant: model_copy() without deep=True -- a new ProfileStore
\* object whose fields refer to the source's lists.
ShallowCopy(h, p) == [heap |-> Append(h, h[p]), addr |-> Len(h) + 1]

\* Faulty variant: only the schedules the method rewrites are copied; the
\* target schedules stay shared with the source.
CopyTunedSchedulesOnly(h, p) ==
    LET c == AllocList(h, ListView(h, h[p].carbratio))
        s == AllocList(c.heap, ListView(c.heap, h[p].sens))
        b == AllocList(s.heap, ListView(s.heap, h[p].basal))
    IN  [heap |-> Append(b.heap,
                    [h[p] EXCEPT !.carbratio = c.addr, !.sens = s.addr,
                                 !.basal = b.addr]),
         addr |-> Len(b.heap) + 1]

\* profile.model_copy(deep=True): copy.deepcopy of the model.  Every list
\* and every entry is copied into a new object; the copy refers to none of
\* the source's objects.  (deepcopy keeps aliasing inside the copied graph;
\* a validated profile has none, each entry being its own object.)
DeepCopy(h, p) ==
    LET c  == AllocList(h, ListView(h, h[p].carbratio))
        s  == AllocList(c.heap, ListView(c.heap, h[p].sens))
        b  == AllocList(s.heap, ListView(s.heap, h[p].basal))
        tl == AllocList(b.heap, ListView(b.heap, h[p].target_low))
        th == AllocList(tl.heap, ListView(tl.heap, h[p].target_high))
    IN  [heap |-> Append(th.heap,
                    [h[p] EXCEPT !.carbratio = c.addr, !.sens = s.addr,
                                 !.basal = b.addr, !.target_low = tl.addr,
                                 !.target_high = th.addr]),
         addr |-> Len(th.heap) + 1]

\* line 103: updated_profile = profile.model_copy(deep=True)
CopyProfile ==
    /\ pc = "copy"
    /\ LET c == DeepCopy(heap, profile)
       IN  /\ heap' = c.heap
           /\ updated' = c.addr
    /\ pc' = "carbratio"
    /\ idx' = 1
    /\ UNCHANGED <<profile, rec, exc, orig, retval, wrote>>
    /\ UNCHANGED outsideApply

\* lines 109-110: for entry in updated_profile.carbratio: entry.value = ...
CarbRatioSchedule(h, p) == h[p].carbratio

CarbRatioValue(r) == r.carb_ratio

SetCarbRatio ==
    /\ pc = "carbratio"
    /\ LET items == heap[CarbRatioSchedule(heap, updated)].items
       IN  IF idx <= Len(items)
           THEN /\ heap' = [heap EXCEPT ![items[idx]].value = CarbRatioValue(rec)]
                /\ idx' = idx + 1
                /\ pc' = pc
           ELSE /\ pc' = "sens"
                /\ idx' = 1
                /\ heap' = heap
    /\ UNCHANGED <<profile, rec, updated, exc, orig, retval, wrote>>
    /\ UNCHANGED outsideApply

\* lines 113-114: for entry in updated_profile.sens: entry.value = ...
\* Faulty variant: the loop runs over the wrong schedule.
SensScheduleTargetLow(h, p) == h[p].target_low

SensSchedule(h, p) == h[p].sens

\* Faulty variant: the carb ratio is written into the sensitivity schedule.
SensValueFromCarbRatio(r) == r.carb_ratio

SensValue(r) == r.sens

SetSens ==
    /\ pc = "sens"
    /\ LET items == heap[SensSchedule(heap, updated)].items
       IN  IF idx <= Len(items)
           THEN /\ heap' = [heap EXCEPT ![items[idx]].value = SensValue(rec)]
                /\ idx' = idx + 1
                /\ pc' = pc
           ELSE /\ pc' = "basal"
                /\ idx' = 1
                /\ heap' = heap
    /\ UNCHANGED <<profile, rec, updated, exc, orig, retval, wrote>>
    /\ UNCHANGED outsideApply

\* Faulty variant: the basal block runs without the emptiness guard.
ReplacesBasalAlways(r) == TRUE

\* line 117: `if result.basalprofile:` -- a list is truthy iff non-empty.
ReplacesBasal(r) == Len(r.basalprofile) > 0

\* Faulty variant: the existing basal schedule is not cleared before the
\* recommended entries are appended.
ClearBasalKeepsEntries ==
    /\ pc = "basal"
    /\ pc' = IF ReplacesBasal(rec) THEN "basal_loop" ELSE "dia"
    /\ idx' = 1
    /\ UNCHANGED <<heap, profile, rec, updated, exc, orig, retval, wrote>>
    /\ UNCHANGED outsideApply

\* lines 117-119: updated_profile.basal = [] (a new list object), or skip
\* the whole block when the recommendation carries no basal entries.
ClearBasal ==
    /\ pc = "basal"
    /\ IF ReplacesBasal(rec)
       THEN /\ heap' = [Append(heap, [kind |-> "list", items |-> <<>>])
                            EXCEPT ![updated].basal = Len(heap) + 1]
            /\ pc' = "basal_loop"
       ELSE /\ heap' = heap
            /\ pc' = "dia"
    /\ idx' = 1
    /\ UNCHANGED <<profile, rec, updated, exc, orig, retval, wrote>>
    /\ UNCHANGED outsideApply

\* lines 126-138: the conversion of one AutotuneBasalEntry.  The outcome is
\* the exception raised, or "ok" with the BasalScheduleEntry constructed.
TimeParts(start) == Split(start, ":")

TimeStr(parts) == parts[1] \o <<":">> \o parts[2]

\* Faulty variant: hours scaled as minutes.
TimeAsSecondsHoursAsMinutes(parts) ==
    IntValue(parts[1]) * 60 + IntValue(parts[2]) * 60

TimeAsSeconds(parts) == IntValue(parts[1]) * 3600 + IntValue(parts[2]) * 60

\* Faulty variant: the new entry is built without validation, so a
\* negative timeAsSeconds gets through.
ConvertBasalUnvalidated(e) ==
    LET parts == TimeParts(e.start)
    IN  IF Len(parts) < 2
        THEN [outcome |-> "IndexError"]
        ELSE IF ~IntParses(parts[1]) \/ ~IntParses(parts[2])
        THEN [outcome |-> "ValueError"]
        ELSE [outcome |-> "ok",
              entry |-> [kind |-> "entry", time |-> TimeStr(parts),
                         value |-> e.rate,
                         timeAsSeconds |-> TimeAsSeconds(parts)]]

\* lines 127-138: the start time is split and converted, and a
\* BasalScheduleEntry is constructed (and thereby validated).
ConvertBasal(e) ==
    LET parts == TimeParts(e.start)
    IN  IF Len(parts) < 2
        THEN [outcome |-> "IndexError"]          \* time_parts[1]
        ELSE IF ~IntParses(parts[1]) \/ ~IntParses(parts[2])
        THEN [outcome |-> "ValueError"]          \* int(time_parts[i])
        ELSE IF TimeAsSeconds(parts) < 0
        THEN [outcome |-> "ValidationError"]     \* timeAsSeconds: ge=0
        ELSE [outcome |-> "ok",
              entry |-> [kind |-> "entry", time |-> TimeStr(parts),
                         value |-> e.rate,
                         timeAsSeconds |-> TimeAsSeconds(parts)]]

\* lines 124-139: one iteration of `for basal_entry in result.basalprofile`.
AppendBasal ==
    /\ pc = "basal_loop"
    /\ IF idx <= Len(rec.basalprofile)
       THEN LET c == ConvertBasal(rec.basalprofile[idx])
                l == heap[updated].basal
            IN  IF c.outcome = "ok"
                THEN /\ heap' = [Append(heap, c.entry) EXCEPT
                                   ![l].items = Append(@, Len(heap) + 1)]
                     /\ idx' = idx + 1
                     /\ pc' = pc
                     /\ exc' = exc
                ELSE /\ pc' = "raised"
                     /\ exc' = c.outcome
                     /\ UNCHANGED <<heap, idx>>
       ELSE /\ pc' = "dia"
            /\ idx' = 1
            /\ UNCHANGED <<heap, exc>>
    /\ UNCHANGED <<profile, rec, updated, orig, retval, wrote>>
    /\ UNCHANGED outsideApply

\* lines 142-143: if result.dia: updated_profile.dia = result.dia
\* Faulty variant: dia is assigned without the presence test.
NewDiaUnconditional(old, r) == r.dia

\* Faulty variant: dia is only ever raised, so what is assigned depends on
\* the value it replaces.
NewDiaLargest(old, r) == IF Truthy(r.dia) /\ r.dia > old THEN r.dia ELSE old

NewDia(old, r) == IF Truthy(r.dia) THEN r.dia ELSE old

\* lines 142-146: the dia update and `return updated_profile`.
SetDiaAndReturn ==
    /\ pc = "dia"
    /\ heap' = [heap EXCEPT ![updated].dia = NewDia(@, rec)]
    /\ retval' = View(heap', updated)
    /\ pc' = "done"
    /\ UNCHANGED <<profile, rec, updated, idx, exc, orig, wrote>>
    /\ UNCHANGED outsideApply

\* After the call the caller owns both profiles; pydantic models are plain
\* mutable objects (no frozen config, no validate_assignment), so the caller
\* may assign a field of any entry or change any list in place.
CallerWrite ==
    /\ pc = "done"
    /\ \E side \in {"input", "result"} :
         LET p == IF side = "input" THEN profile ELSE updated
         IN  /\ wrote' = side
             /\ \E f \in Schedules :
                  LET l == SchedAddr(heap, p, f)
                  IN  \/ \E i \in 1..Len(heap[l].items) :
                           heap' = [heap EXCEPT ![heap[l].items[i]].value = 999]
                      \/ heap' = [heap EXCEPT ![l].items = <<>>]
    /\ pc' = "written"
    /\ UNCHANGED <<profile, rec, updated, idx, exc, orig, retval>>
    /\ UNCHANGED outsideApply

\* ------------------------------------ JSON values and pydantic fields
\* A JSON value under a key of a raw record: t is "int" (a number), "numstr"
\* (a string of decimal digits), "text" (any other string), "null", or
\* "absent" (the key is missing); v is the number, or identifies the string.
Val(t, v) == [t |-> t, v |-> v]

Absent == Val("absent", 0)
Null == Val("null", 0)

\* ------------------------------------------------- run_analysis, idle
Calls == 1..NumCalls

\* An exception object: its class, its message, and what a
\* CalledProcessError carries (returncode, stdout, stderr).
Exc(type, msg, code, stdout, stderr) ==
    [type |-> type, msg |-> msg, returncode |-> code, stdout |-> stdout,
     stderr |-> stderr]

NoExc == Exc("none", "", 0, "", "")

\* The text of a file the external process may leave behind, by what
\* json.loads makes of it: shape "dict" (an object with these keys),
\* "list" (a JSON array), "garbage" (no JSON), and "nofile" for none.
Doc(shape, basalprofile, carb_ratio, sens, dia) ==
    [shape |-> shape, basalprofile |-> basalprofile, carb_ratio |-> carb_ratio,
     sens |-> sens, dia |-> dia]

NoDoc == Doc("nofile", Absent, Absent, Absent, Absent)

\* One run of the external process: how it ended, what it printed and
\* what it left in the output directory.
Run(outcome, code, stdout, stderr, output) ==
    [outcome |-> outcome, code |-> code, stdout |-> stdout, stderr |-> stderr,
     output |-> output]

NoRun == Run("none", 0, "", "", NoDoc)

NoRecommendations ==
    [returned |-> FALSE, result |-> NoDoc, profile_name |-> "",
     days_analyzed |-> 0]

TuneIdle ==
    /\ tpc = [c \in Calls |-> "idle"]
    /\ tdays = [c \in Calls |-> 7]
    /\ tname = [c \in Calls |-> ""]
    /\ tdir = [c \in Calls |-> 0]
    /\ tproc = [c \in Calls |-> NoRun]
    /\ truns = [c \in Calls |-> 0]
    /\ tread = [c \in Calls |-> FALSE]
    /\ tdata = [c \in Calls |-> NoDoc]
    /\ texc = [c \in Calls |-> NoExc]
    /\ tresult = [c \in Calls |-> NoRecommendations]
    /\ dirs = {}
    /\ files = {}

\* ------------------------------------------------- sync_profile, idle
\* The optional argument `profile_name`: a name, or None.
Name(n) == [given |-> TRUE, name |-> n]
NoName == [given |-> FALSE, name |-> ""]

\* A Python object by its class: a dict or a pydantic model, with its
\* content.
Obj(kind, value) == [kind |-> kind, value |-> value]

NoObj == Obj("none", <<>>)

\* The JSON body of the answer to GET /api/v1/profile.  shape "list" is an
\* array holding one document, "empty" an empty array; the document has a
\* defaultProfile key or not, and a store mapping names to profiles.
Reply(shape, hasDefault, defaultProfile, store) ==
    [shape |-> shape, hasDefault |-> hasDefault,
     defaultProfile |-> defaultProfile, store |-> store]

NoReply == Reply("none", FALSE, "", <<>>)

SyncIdle ==
    /\ spc = "idle"
    /\ sname = NoName
    /\ sprofile = NoObj
    /\ sdata = NoObj
    /\ sreply = NoReply
    /\ scur = NoObj
    /\ sexc = NoExc
    /\ sreqs = <<>>
    /\ sresult = NoObj

ClientIdle ==
    /\ cpc = "idle"
    /\ curl = "https"
    /\ chow = "keyword"
    /\ cname = ""
    /\ cstatuses = <<>>
    /\ creply = NoReply
    /\ cexc = NoExc
    /\ cavail = {}
    /\ cret = NoObj

\* The locals of one apply_recommendations call that is not running.
Thread(r, u, p, i, e) ==
    [rec |-> r, updated |-> u, pc |-> p, idx |-> i, exc |-> e]

NoThread ==
    Thread([basalprofile |-> <<>>, carb_ratio |-> 12, sens |-> 55,
            dia |-> None], 0, "idle", 1, "none")

CallIdle ==
    /\ round = 0
    /\ recs = <<>>
    /\ given = 0
    /\ results = <<>>
    /\ parked = NoThread

HistIdle ==
    /\ hpc = "idle"
    /\ raw_entries = <<>>
    /\ raw_treatments = <<>>
    /\ entries = <<>>
    /\ treatments = <<>>
    /\ hidx = 1
    /\ days = 0
    /\ clock = 0
    /\ svc_end = 0
    /\ cli_end = 0
    /\ hexc = "none"
    /\ sent = <<>>
    /\ hresult = [entries |-> <<>>, treatments |-> <<>>,
                  start_date |-> 0, end_date |-> 0]

\* The state when apply_recommendations is entered with a validated profile
\* and validated recommendations.
Init ==
    /\ \E nC \in 0..MaxSched, nS \in 0..MaxSched, nB \in 0..MaxSched :
         LET p == ProfileStore(nC, nS, nB)
         IN  /\ heap = p.heap
             /\ profile = p.addr
             /\ orig = View(p.heap, p.addr)
    /\ rec \in AutotuneResults
    /\ updated = 0
    /\ pc = "copy"
    /\ idx = 1
    /\ exc = "none"
    /\ retval = <<>>
    /\ wrote = "none"
    /\ HistIdle
    /\ TuneIdle
    /\ SyncIdle
    /\ ClientIdle
    /\ CallIdle

Next ==
    \/ CopyProfile
    \/ SetCarbRatio
    \/ SetSens
    \/ ClearBasal
    \/ AppendBasal
    \/ SetDiaAndReturn
    \/ CallerWrite

Spec == Init /\ [][Next]_vars

\* --------------------- several calls of apply_recommendations in a row
\* The method keeps no state between calls (it reads no attribute of
\* `self`): a call is determined by its two arguments and the heap.
\* The recommended values a call sequence draws from: carb_ratio, sens, dia.
TunedValues == {<<12, 55, None>>, <<12, 55, 6>>, <<15, 60, None>>, <<15, 60, 4>>}

AutotuneResultsOver(basals, tuned) ==
    {[basalprofile |-> [i \in 1..Len(q) |-> AutotuneBasalEntry(q[i])],
      carb_ratio |-> t[1], sens |-> t[2], dia |-> t[3]] :
        q \in basals, t \in tuned}

\* Recommendations under which the method returns: start times 06:30:59
\* and 12:05.
ChainResults == AutotuneResultsOver(SeqsUpTo({1, 3}, MaxBasal), TunedValues)

\* A recommendation that carries a dia and a non-empty basal schedule.
Complete(r) == Truthy(r.dia) /\ Len(r.basalprofile) > 0

\* What a finished call gave its caller: the exception, or the value of
\* the returned profile.
Finished(p) == p \in {"done", "raised"}

Outcome(h, u, p, e) ==
    [exc |-> IF p = "raised" THEN e ELSE "none",
     value |-> IF p = "done" THEN <<View(h, u)>> ELSE <<>>]

\* line 84: apply_recommendations(profile=p, recommendations=r) is entered.
StartCall(p, r) ==
    /\ profile' = p
    /\ rec' = r
    /\ orig' = View(heap, p)
    /\ updated' = 0
    /\ pc' = "copy"
    /\ idx' = 1
    /\ exc' = "none"
    /\ retval' = <<>>
    /\ UNCHANGED <<heap, wrote>>

\* The caller applies the second recommendation to the profile the first
\* call returned.
ApplyToResult ==
    /\ round = 1
    /\ pc = "done"
    /\ results' = Append(results, Outcome(heap, updated, pc, exc))
    /\ round' = 2
    /\ StartCall(updated, recs[2])
    /\ UNCHANGED <<recs, given, parked>>
    /\ UNCHANGED outsideCall

\* The caller applies the second recommendation to the profile it started
\* with.
ApplyToGiven ==
    /\ round = 2
    /\ pc = "done"
    /\ results' = Append(results, Outcome(heap, updated, pc, exc))
    /\ round' = 3
    /\ StartCall(given, recs[2])
    /\ UNCHANGED <<recs, given, parked>>
    /\ UNCHANGED outsideCall

\* apply(P, R1), then apply(apply(P, R1), R2), then apply(P, R2), where R2
\* repeats R1 or is complete.
InitChain ==
    /\ \E n \in 0..MaxSched :
         LET p == ProfileStore(n, n, n)
         IN  /\ heap = p.heap
             /\ profile = p.addr
             /\ given = p.addr
             /\ orig = View(p.heap, p.addr)
    /\ \E r1 \in ChainResults, r2 \in ChainResults :
         /\ r2 = r1 \/ Complete(r2)
         /\ recs = <<r1, r2>>
         /\ rec = r1
    /\ round = 1
    /\ results = <<>>
    /\ parked = NoThread
    /\ updated = 0
    /\ pc = "copy"
    /\ idx = 1
    /\ exc = "none"
    /\ retval = <<>>
    /\ wrote = "none"
    /\ HistIdle
    /\ TuneIdle
    /\ SyncIdle
    /\ ClientIdle

NextChain ==
    \/ CopyProfile
    \/ SetCarbRatio
    \/ SetSens
    \/ ClearBasal
    \/ AppendBasal
    \/ SetDiaAndReturn
    \/ ApplyToResult
    \/ ApplyToGiven

SpecChain == InitChain /\ [][NextChain]_vars

\* ----------------------- two threads calling apply_recommendations
\* The method takes no lock; two threads that call it with the same profile
\* run its statements in any interleaving.  The running thread's locals are
\* the variables of the call; the other thread's locals are parked.
\* Basal schedules by index into StartPool; the last one makes the call
\* raise after its first entry was appended.
ThreadBasals == {<<>>, <<1>>, <<3, 1>>, <<1, 6>>}

ThreadResults ==
    AutotuneResultsOver(ThreadBasals, {<<12, 55, None>>, <<15, 60, 4>>})

\* A first thread has run each recommendation alone; now it calls again
\* with the first.
ApplyAlone ==
    /\ round = 1
    /\ Finished(pc)
    /\ results' = Append(results, Outcome(heap, updated, pc, exc))
    /\ round' = 2
    /\ StartCall(given, recs[2])
    /\ UNCHANGED <<recs, given, parked>>
    /\ UNCHANGED outsideCall

\* Two threads enter the method with the same profile, one with each
\* recommendation.
ApplyTogether ==
    /\ round = 2
    /\ Finished(pc)
    /\ results' = Append(results, Outcome(heap, updated, pc, exc))
    /\ round' = 3
    /\ StartCall(given, recs[1])
    /\ parked' = Thread(recs[2], 0, "copy", 1, "none")
    /\ UNCHANGED <<recs, given>>
    /\ UNCHANGED outsideCall

\* The interpreter switches threads between two statements: the heap is
\* shared, the locals are each thread's own.
Switch ==
    /\ round = 3
    /\ ~Finished(parked.pc)
    /\ rec' = parked.rec
    /\ updated' = parked.updated
    /\ pc' = parked.pc
    /\ idx' = parked.idx
    /\ exc' = parked.exc
    /\ retval' = <<>>
    /\ parked' = Thread(rec, updated, pc, idx, exc)
    /\ UNCHANGED <<heap, profile, orig, wrote, round, recs, given, results>>
    /\ UNCHANGED outsideCall

InitThreads ==
    /\ LET p == ProfileStore(1, 1, 1)
       IN  /\ heap = p.heap
           /\ profile = p.addr
           /\ given = p.addr
           /\ orig = View(p.heap, p.addr)
    /\ \E r1 \in ThreadResults, r2 \in ThreadResults :
         /\ recs = <<r1, r2>>
         /\ rec = r1
    /\ round = 1
    /\ results = <<>>
    /\ parked = NoThread
    /\ updated = 0
    /\ pc = "copy"
    /\ idx = 1
    /\ exc = "none"
    /\ retval = <<>>
    /\ wrote = "none"
    /\ HistIdle
    /\ TuneIdle
    /\ SyncIdle
    /\ ClientIdle

NextThreads ==
    \/ CopyProfile
    \/ SetCarbRatio
    \/ SetSens
    \/ ClearBasal
    \/ AppendBasal
    \/ SetDiaAndReturn
    \/ ApplyAlone
    \/ ApplyTogether
    \/ Switch

SpecThreads == InitThreads /\ [][NextThreads]_vars

\* ------------------------------------------------- pydantic fields
\* A required `int` field: pydantic's lax mode also takes a numeric string.
IntOk(x) == x.t \in {"int", "numstr"}
IntOf(x) == Val("int", x.v)

\* A required `str` field: strings only, kept as they are.
StrOk(x) == x.t \in {"text", "numstr"}

\* An optional field: a missing key and null both give None.
OptOf(x) == IF x.t = "absent" THEN Null ELSE x
OptStrOk(x) == x.t \in {"absent", "null"} \/ StrOk(x)
OptIntOk(x) == x.t \in {"absent", "null"} \/ IntOk(x)
OptIntOf(x) == IF x.t \in {"absent", "null"} THEN Null ELSE IntOf(x)

\* An optional `float` field with ge=0.
OptFloatGe0Ok(x) == x.t \in {"absent", "null"} \/ (IntOk(x) /\ x.v >= 0)

\* models/nightscout.py, NightscoutEntry(**entry_data): TypeError when the
\* raw item is no mapping, ValidationError when a field fails, else the
\* model with its declared fields (unknown keys are ignored; `_id` has a
\* leading underscore and is no pydantic field).
NightscoutEntry(raw) ==
    IF raw.shape # "dict" THEN [outcome |-> "TypeError"]
    ELSE IF ~ /\ IntOk(raw.sgv) /\ raw.sgv.v >= 20 /\ raw.sgv.v <= 600
              /\ IntOk(raw.date)
              /\ StrOk(raw.dateString)
              /\ StrOk(raw.type)
              /\ OptStrOk(raw.direction)
              /\ OptStrOk(raw.device)
    THEN [outcome |-> "ValidationError"]
    ELSE [outcome |-> "ok",
          model |-> [sgv |-> IntOf(raw.sgv), date |-> IntOf(raw.date),
                     dateString |-> raw.dateString, type |-> raw.type,
                     direction |-> OptOf(raw.direction),
                     device |-> OptOf(raw.device)]]

\* models/nightscout.py, NightscoutTreatment(**treatment_data).  Of the
\* optional string fields (timestamp, glucoseType, notes, enteredBy), which
\* all validate alike, `notes` is modelled.
NightscoutTreatment(raw) ==
    IF raw.shape # "dict" THEN [outcome |-> "TypeError"]
    ELSE IF ~ /\ StrOk(raw.eventType)
              /\ StrOk(raw.created_at)
              /\ OptFloatGe0Ok(raw.insulin)
              /\ OptFloatGe0Ok(raw.carbs)
              /\ OptIntOk(raw.glucose)
              /\ OptStrOk(raw.notes)
    THEN [outcome |-> "ValidationError"]
    ELSE [outcome |-> "ok",
          model |-> [eventType |-> raw.eventType, created_at |-> raw.created_at,
                     insulin |-> OptIntOf(raw.insulin),
                     carbs |-> OptIntOf(raw.carbs),
                     glucose |-> OptIntOf(raw.glucose),
                     notes |-> OptOf(raw.notes)]]

RawEntry(shape, sgv, date, dateString, type, direction, extra) ==
    [shape |-> shape, sgv |-> sgv, date |-> date, dateString |-> dateString,
     type |-> type, direction |-> direction, device |-> Absent, extra |-> extra]

\* Raw glucose records a store may return.  `date` is the reading's
\* instant in milliseconds, counted from the clock's origin (the moment
\* the call starts): one hour, eight days, one minute before the call.
RawEntryPool ==
    { RawEntry("dict", Val("int", 120), Val("int", 0 - 3600000), Val("text", 1),
               Val("text", 0), Val("text", 9), Absent),      \* the test's valid entry
      RawEntry("dict", Val("numstr", 600), Val("int", 0 - 691200000), Val("text", 2),
               Val("text", 0), Absent, Val("text", 7)),      \* sgv "600", _id given
      RawEntry("dict", Val("int", 19), Val("int", 0 - 60000), Val("text", 3),
               Val("text", 0), Absent, Absent),              \* sgv below 20
      RawEntry("dict", Absent, Absent, Absent, Absent, Absent,
               Val("text", 8)),                              \* {"invalid": "data"}
      RawEntry("other", Absent, Val("int", 5), Absent, Absent, Absent,
               Absent) }                                     \* not a JSON object

RawTreatment(shape, eventType, created_at, insulin, carbs) ==
    [shape |-> shape, eventType |-> eventType, created_at |-> created_at,
     insulin |-> insulin, carbs |-> carbs, glucose |-> Absent, notes |-> Absent]

\* Raw treatment records a store may return.  The text of `created_at` is
\* identified by the instant it denotes, in seconds from the clock's origin.
RawTreatmentPool ==
    { RawTreatment("dict", Val("text", 0), Val("text", 0 - 120), Val("int", 2), Null),
      RawTreatment("dict", Absent, Val("text", 0 - 180), Absent, Val("int", 30)),
      RawTreatment("dict", Val("text", 0), Val("text", 0 - 240), Val("int", 0 - 1),
                   Absent) }

\* ----------------------------- clients/nightscout_client.py (queries)
\* timedelta(days=days), in seconds.
StartDate(end, d) == end - d * 86400

\* ---------------------------------- services/nightscout_service.py
\* lines 103-106: end_date = datetime.now(); start_date = end_date - ...
HistStart ==
    /\ hpc = "start"
    /\ svc_end' = clock
    /\ hpc' = "client_window"
    /\ UNCHANGED <<sent, days, clock, cli_end, raw_entries, raw_treatments, entries,
                   treatments, hidx, hexc, hresult>>
    /\ UNCHANGED outsideHist

\* client lines 221-222: the client reads the clock again, later.
ClientWindow ==
    /\ hpc = "client_window"
    /\ \E d \in 0..MaxDelay : clock' = clock + d
    /\ cli_end' = clock'
    /\ hpc' = "get_entries"
    /\ UNCHANGED <<sent, days, svc_end, raw_entries, raw_treatments, entries,
                   treatments, hidx, hexc, hresult>>
    /\ UNCHANGED outsideHist

\* Errors of the transport layer (subclasses of requests.RequestException).
TransportErrors == {"ConnectionError", "HTTPError"}

\* The query a client method sends: its date range and what came of it.
Query(op, end, d, status) ==
    [op |-> op, start |-> StartDate(end, d), end |-> end, status |-> status]

\* client lines 156-158 and 202-204: `except RequestException: ... raise`
\* re-raises the error it caught.
Reraise(e) == e

\* client line 224 (get_entries, lines 114-158): the store answers with a
\* list of raw records, or the request fails and the error is re-raised.
GetEntries ==
    /\ hpc = "get_entries"
    /\ \/ /\ raw_entries' \in SeqsUpTo(RawEntryPool, MaxRaw)
          /\ sent' = Append(sent, Query("entries", cli_end, days, "ok"))
          /\ hpc' = "get_treatments"
          /\ hexc' = hexc
       \/ \E e \in TransportErrors :
          /\ sent' = Append(sent, Query("entries", cli_end, days, e))
          /\ hpc' = "raised"
          /\ hexc' = Reraise(e)
          /\ raw_entries' = raw_entries
    /\ UNCHANGED <<days, clock, svc_end, cli_end, raw_treatments, entries,
                   treatments, hidx, hresult>>
    /\ UNCHANGED outsideHist

\* Faulty variant: a failed treatments query is swallowed and answered
\* with an empty list.
GetTreatmentsSwallowsError ==
    /\ hpc = "get_treatments"
    /\ \/ /\ raw_treatments' \in SeqsUpTo(RawTreatmentPool, MaxRaw)
          /\ sent' = Append(sent, Query("treatments", cli_end, days, "ok"))
       \/ \E e \in TransportErrors :
          /\ sent' = Append(sent, Query("treatments", cli_end, days, e))
          /\ raw_treatments' = <<>>
    /\ hpc' = "validate_entries"
    /\ hidx' = 1
    /\ UNCHANGED <<days, clock, svc_end, cli_end, raw_entries, entries,
                   treatments, hexc, hresult>>
    /\ UNCHANGED outsideHist

\* client line 225 (get_treatments, lines 160-204).
GetTreatments ==
    /\ hpc = "get_treatments"
    /\ \/ /\ raw_treatments' \in SeqsUpTo(RawTreatmentPool, MaxRaw)
          /\ sent' = Append(sent, Query("treatments", cli_end, days, "ok"))
          /\ hpc' = "validate_entries"
          /\ hexc' = hexc
       \/ \E e \in TransportErrors :
          /\ sent' = Append(sent, Query("treatments", cli_end, days, e))
          /\ hpc' = "raised"
          /\ hexc' = Reraise(e)
          /\ raw_treatments' = raw_treatments
    /\ hidx' = 1
    /\ UNCHANGED <<days, clock, svc_end, cli_end, raw_entries, entries,
                   treatments, hresult>>
    /\ UNCHANGED outsideHist

\* Faulty variant: only pydantic's ValidationError is caught.
CaughtValidationErrorOnly(e) == e = "ValidationError"

\* lines 116 and 126: `except Exception` catches every exception the
\* constructor call raises.
Caught(e) == TRUE

\* lines 115 and 125: list.append
Collect(list, model) == Append(list, model)

\* lines 111-118: one iteration of `for entry_data in entries_raw`.
ValidateEntry ==
    /\ hpc = "validate_entries"
    /\ IF hidx <= Len(raw_entries)
       THEN LET r == NightscoutEntry(raw_entries[hidx])
            IN  IF r.outcome = "ok"
                THEN /\ entries' = Collect(entries, r.model)
                     /\ hidx' = hidx + 1
                     /\ UNCHANGED <<hpc, hexc>>
                ELSE IF Caught(r.outcome)
                THEN /\ hidx' = hidx + 1
                     /\ UNCHANGED <<hpc, hexc, entries>>
                ELSE /\ hpc' = "raised"
                     /\ hexc' = r.outcome
                     /\ UNCHANGED <<hidx, entries>>
       ELSE /\ hpc' = "validate_treatments"
            /\ hidx' = 1
            /\ UNCHANGED <<hexc, entries>>
    /\ UNCHANGED <<sent, days, clock, svc_end, cli_end, raw_entries, raw_treatments,
                   treatments, hresult>>
    /\ UNCHANGED outsideHist

\* lines 121-128: one iteration of `for treatment_data in treatments_raw`.
ValidateTreatment ==
    /\ hpc = "validate_treatments"
    /\ IF hidx <= Len(raw_treatments)
       THEN LET r == NightscoutTreatment(raw_treatments[hidx])
            IN  IF r.outcome = "ok"
                THEN /\ treatments' = Collect(treatments, r.model)
                     /\ hidx' = hidx + 1
                     /\ UNCHANGED <<hpc, hexc>>
                ELSE IF Caught(r.outcome)
                THEN /\ hidx' = hidx + 1
                     /\ UNCHANGED <<hpc, hexc, treatments>>
                ELSE /\ hpc' = "raised"
                     /\ hexc' = r.outcome
                     /\ UNCHANGED <<hidx, treatments>>
       ELSE /\ hpc' = "build"
            /\ hidx' = 1
            /\ UNCHANGED <<hexc, treatments>>
    /\ UNCHANGED <<sent, days, clock, svc_end, cli_end, raw_entries, raw_treatments,
                   entries, hresult>>
    /\ UNCHANGED outsideHist

\* lines 130-141: HistoricalData(...) of the validated models; return.
HistReturn ==
    /\ hpc = "build"
    /\ hresult' = [entries |-> entries, treatments |-> treatments,
                   start_date |-> StartDate(svc_end, days),
                   end_date |-> svc_end]
    /\ hpc' = "done"
    /\ UNCHANGED <<sent, days, clock, svc_end, cli_end, raw_entries, raw_treatments,
                   entries, treatments, hidx, hexc>>
    /\ UNCHANGED outsideHist

ApplyIdle ==
    /\ heap = <<>>
    /\ profile = 0
    /\ rec = [basalprofile |-> <<>>, carb_ratio |-> 12, sens |-> 55, dia |-> None]
    /\ updated = 0
    /\ pc = "idle"
    /\ idx = 1
    /\ exc = "none"
    /\ orig = <<>>
    /\ retval = <<>>
    /\ wrote = "none"

\* Day counts a caller passes; 7 is the default of the `days` parameter.
DayChoices == {1, 7}

\* The state when get_historical_data(days) is entered.
InitHistory ==
    /\ CallIdle
    /\ ApplyIdle
    /\ TuneIdle
    /\ SyncIdle
    /\ ClientIdle
    /\ hpc = "start"
    /\ days \in DayChoices
    /\ clock = 0
    /\ svc_end = 0
    /\ cli_end = 0
    /\ raw_entries = <<>>
    /\ raw_treatments = <<>>
    /\ entries = <<>>
    /\ treatments = <<>>
    /\ hidx = 1
    /\ hexc = "none"
    /\ sent = <<>>
    /\ hresult = [entries |-> <<>>, treatments |-> <<>>,
                  start_date |-> 0, end_date |-> 0]

NextHistory ==
    \/ HistStart
    \/ ClientWindow
    \/ GetEntries
    \/ GetTreatments
    \/ ValidateEntry
    \/ ValidateTreatment
    \/ HistReturn

SpecHistory == InitHistory /\ [][NextHistory]_vars

\* ================================== run_analysis and run_autotune
\* Paths below the temporary directory (client lines 60-63 and 112).
InputNames == {"profile.json", "entries.json", "treatments.json"}
OutputDirName == "autotune"
OutputName == "autotune/autotune_recommendations.json"

File(d, name, data) == [dir |-> d, name |-> name, data |-> data]

\* What json.dumps of an invocation's arguments writes: the text is
\* identified by the invocation whose arguments it holds.
Dumped(c) == Doc("input", Val("int", c), Absent, Absent, Absent)

DirEntry == Doc("dir", Absent, Absent, Absent, Absent)

\* Output documents a run may leave: a complete one; one without `sens`;
\* one whose carb_ratio is 0; a JSON array; text that is no JSON.
ValidDoc == Doc("dict", Val("list", 1), Val("int", 12), Val("int", 55), Null)
MissingSensDoc == Doc("dict", Val("list", 1), Val("int", 12), Absent, Absent)
ZeroCarbRatioDoc ==
    Doc("dict", Val("list", 0), Val("int", 0), Val("int", 55), Val("int", 6))
ArrayDoc == Doc("list", Absent, Absent, Absent, Absent)
GarbageDoc == Doc("garbage", Absent, Absent, Absent, Absent)

\* The behaviours of the external process: exit 0 with or without an
\* output file, a non-zero exit, a timeout (both with or without an output
\* file left behind), and an executable that cannot be started.
ProcessRuns ==
    { Run("exited", 0, "ok", "", d) :
          d \in {NoDoc, ValidDoc, MissingSensDoc, ZeroCarbRatioDoc, ArrayDoc,
                 GarbageDoc} }
    \cup { Run("exited", 1, "", "not enough data", NoDoc),
           Run("exited", 2, "partial", "", ValidDoc),
           Run("timeout", 0, "", "", NoDoc),
           Run("timeout", 0, "", "", ValidDoc),
           Run("oserror", 0, "", "", NoDoc) }

\* Day counts passed to run_analysis; 7 is the default.
TuneDays == {0, 7}

\* The arguments `profile_name` and `days` of a run_analysis call: the
\* day counts above for one profile, and one day for another profile.
TuneArgs ==
    {[profile_name |-> "Default", days |-> d] : d \in TuneDays}
    \cup {[profile_name |-> "Other", days |-> 1]}

\* The invocations are interchangeable, so their arguments are handed out
\* in one order only (by day count).
Ordered(args) == \A c, d \in Calls : c < d => args[c].days <= args[d].days

\* shutil.rmtree of a directory: everything below it goes.
Rmtree(F, d) == {f \in F : f.dir # d}

\* Faulty variant: the directory's content is removed only when the block
\* is left without an exception.
CleanupOnReturnOnly(F, d, raised) == IF raised THEN F ELSE Rmtree(F, d)

\* client line 56: TemporaryDirectory.__exit__ runs on every way out of
\* the with-block, whether an exception is in flight or not.
Cleanup(F, d, raised) == Rmtree(F, d)

\* Faulty variant: subprocess.run without check=True.
SubprocessRunUnchecked(p) ==
    IF p.outcome = "oserror" THEN "OSError"
    ELSE IF p.outcome = "timeout" THEN "TimeoutExpired"
    ELSE "none"

\* client lines 90-96: subprocess.run(cmd, capture_output=True, text=True,
\* check=True, timeout=600) and the exception it raises, if any.
SubprocessRun(p) ==
    IF p.outcome = "oserror" THEN "OSError"
    ELSE IF p.outcome = "timeout" THEN "TimeoutExpired"
    ELSE IF p.code # 0 THEN "CalledProcessError"
    ELSE "none"

TimedOut == Exc("ValueError", "Autotune analysis timed out", 0, "", "")
NoOutput ==
    Exc("ValueError", "Autotune did not produce recommendations file", 0, "", "")

\* client lines 102-109: TimeoutExpired becomes a ValueError,
\* CalledProcessError is re-raised as it is (with the captured output);
\* anything else is not caught.
Translate(raised, p) ==
    IF raised = "TimeoutExpired" THEN TimedOut
    ELSE IF raised = "CalledProcessError"
         THEN Exc("CalledProcessError", "", p.code, p.stdout, p.stderr)
    ELSE Exc(raised, "", 0, "", "")

\* Faulty variant: the existence check always succeeds.
ExistsAlways(F, d, name) == TRUE

\* client line 113: recommendations_file.exists()
Exists(F, d, name) == \E f \in F : f.dir = d /\ f.name = name

Content(F, d, name) == (CHOOSE f \in F : f.dir = d /\ f.name = name).data

\* A `float` field with gt=0, required or optional.
FloatGt0Ok(x) == IntOk(x) /\ x.v > 0
OptFloatGt0Ok(x) == x.t \in {"absent", "null"} \/ FloatGt0Ok(x)

\* Faulty variant: the gt=0 bounds are not enforced.
AutotuneResultUnbounded(doc) ==
    IF doc.shape # "dict" THEN [outcome |-> "TypeError", model |-> NoDoc]
    ELSE IF ~ /\ doc.basalprofile.t = "list"
              /\ IntOk(doc.carb_ratio)
              /\ IntOk(doc.sens)
              /\ OptIntOk(doc.dia)
    THEN [outcome |-> "ValidationError", model |-> NoDoc]
    ELSE [outcome |-> "ok",
          model |-> Doc("model", doc.basalprofile, IntOf(doc.carb_ratio),
                        IntOf(doc.sens), OptIntOf(doc.dia))]

\* models/autotune.py, AutotuneResult(**result_data): TypeError when the
\* parsed output is no mapping, ValidationError when a field is missing or
\* out of bounds, else the model.
AutotuneResult(doc) ==
    IF doc.shape # "dict" THEN [outcome |-> "TypeError", model |-> NoDoc]
    ELSE IF ~ /\ doc.basalprofile.t = "list"
              /\ FloatGt0Ok(doc.carb_ratio)
              /\ FloatGt0Ok(doc.sens)
              /\ OptFloatGt0Ok(doc.dia)
    THEN [outcome |-> "ValidationError", model |-> NoDoc]
    ELSE [outcome |-> "ok",
          model |-> Doc("model", doc.basalprofile, IntOf(doc.carb_ratio),
                        IntOf(doc.sens), OptIntOf(doc.dia))]

\* Faulty variant: every invocation works in one fixed directory.
SharedDirectory(c) == 1

\* client line 56: mkdtemp makes a directory that did not exist before.
\* Directories are told apart by the invocation that made them, not by
\* their path.
Mkdtemp(c) == c

\* service lines 57-66 and client lines 56-57: the arguments are dumped,
\* run_autotune is called and makes itself a new temporary directory.
EnterTemporaryDirectory(c) ==
    /\ tpc[c] = "idle"
    /\ tdir' = [tdir EXCEPT ![c] = Mkdtemp(c)]
    /\ dirs' = dirs \cup {Mkdtemp(c)}
    /\ tpc' = [tpc EXCEPT ![c] = "write"]
    /\ UNCHANGED <<tdays, tname, tproc, truns, tread, tdata, texc, tresult, files>>
    /\ UNCHANGED outsideTune

\* client lines 64-68: the output directory and the three input files.
WriteInputs(c) ==
    /\ tpc[c] = "write"
    /\ files' = files \cup {File(tdir[c], OutputDirName, DirEntry)}
                      \cup {File(tdir[c], n, Dumped(c)) : n \in InputNames}
    /\ tpc' = [tpc EXCEPT ![c] = "run"]
    /\ UNCHANGED <<tdays, tname, tdir, tproc, truns, tread, tdata, texc, tresult,
                   dirs>>
    /\ UNCHANGED outsideTune

\* Faulty variant: a failed run is tried once more.
RunProcessRetrying(c) ==
    /\ tpc[c] = "run"
    /\ \E p \in ProcessRuns :
         LET raised == SubprocessRun(p)
         IN  /\ tproc' = [tproc EXCEPT ![c] = p]
             /\ files' = IF p.output = NoDoc THEN files
                         ELSE files \cup {File(tdir[c], OutputName, p.output)}
             /\ IF raised = "none"
                THEN /\ tpc' = [tpc EXCEPT ![c] = "exists"]
                     /\ texc' = texc
                ELSE /\ tpc' = [tpc EXCEPT ![c] = IF truns[c] = 0 THEN "run"
                                                  ELSE "exit"]
                     /\ texc' = [texc EXCEPT ![c] = Translate(raised, p)]
    /\ truns' = [truns EXCEPT ![c] = @ + 1]
    /\ UNCHANGED <<tdays, tname, tdir, tread, tdata, tresult, dirs>>
    /\ UNCHANGED outsideTune

\* client lines 73-109: the process runs once on the directory; a timeout,
\* a non-zero exit or a failed start leaves the with-block by an exception.
RunProcess(c) ==
    /\ tpc[c] = "run"
    /\ \E p \in ProcessRuns :
         LET raised == SubprocessRun(p)
         IN  /\ tproc' = [tproc EXCEPT ![c] = p]
             /\ files' = IF p.output = NoDoc THEN files
                         ELSE files \cup {File(tdir[c], OutputName, p.output)}
             /\ IF raised = "none"
                THEN /\ tpc' = [tpc EXCEPT ![c] = "exists"]
                     /\ texc' = texc
                ELSE /\ tpc' = [tpc EXCEPT ![c] = "exit"]
                     /\ texc' = [texc EXCEPT ![c] = Translate(raised, p)]
    /\ truns' = [truns EXCEPT ![c] = @ + 1]
    /\ UNCHANGED <<tdays, tname, tdir, tread, tdata, tresult, dirs>>
    /\ UNCHANGED outsideTune

\* client lines 112-117
CheckExists(c) ==
    /\ tpc[c] = "exists"
    /\ IF Exists(files, tdir[c], OutputName)
       THEN /\ tpc' = [tpc EXCEPT ![c] = "read"]
            /\ texc' = texc
       ELSE /\ tpc' = [tpc EXCEPT ![c] = "exit"]
            /\ texc' = [texc EXCEPT ![c] = NoOutput]
    /\ UNCHANGED <<tdays, tname, tdir, tproc, truns, tread, tdata, tresult,
                   dirs, files>>
    /\ UNCHANGED outsideTune

\* client line 119: read_text raises FileNotFoundError on a missing file,
\* json.loads raises JSONDecodeError on text that is no JSON.
ReadOutput(c) ==
    /\ tpc[c] = "read"
    /\ tpc' = [tpc EXCEPT ![c] = "exit"]
    /\ IF ~ \E f \in files : f.dir = tdir[c] /\ f.name = OutputName
       THEN /\ texc' = [texc EXCEPT ![c] = Exc("FileNotFoundError", "", 0, "", "")]
            /\ UNCHANGED <<tread, tdata>>
       ELSE /\ tread' = [tread EXCEPT ![c] = TRUE]
            /\ IF Content(files, tdir[c], OutputName).shape = "garbage"
               THEN /\ texc' = [texc EXCEPT ![c] =
                                    Exc("JSONDecodeError", "", 0, "", "")]
                    /\ tdata' = tdata
               ELSE /\ tdata' = [tdata EXCEPT ![c] =
                                     Content(files, tdir[c], OutputName)]
                    /\ texc' = texc
    /\ UNCHANGED <<tdays, tname, tdir, tproc, truns, tresult, dirs, files>>
    /\ UNCHANGED outsideTune

\* client line 56 (leaving the with-block, by `return` at line 122 or by an
\* exception): the directory and everything in it is removed, then the
\* value is returned to run_analysis or the exception goes on to the caller.
ExitTemporaryDirectory(c) ==
    /\ tpc[c] = "exit"
    /\ dirs' = dirs \ {tdir[c]}
    /\ files' = Cleanup(files, tdir[c], texc[c] # NoExc)
    /\ tpc' = [tpc EXCEPT ![c] = IF texc[c] = NoExc THEN "validate"
                                 ELSE "raised"]
    /\ UNCHANGED <<tdays, tname, tdir, tproc, truns, tread, tdata, texc, tresult>>
    /\ UNCHANGED outsideTune

\* service line 69
ValidateResult(c) ==
    /\ tpc[c] = "validate"
    /\ LET r == AutotuneResult(tdata[c])
       IN  IF r.outcome = "ok"
           THEN /\ tpc' = [tpc EXCEPT ![c] = "wrap"]
                /\ texc' = texc
           ELSE /\ tpc' = [tpc EXCEPT ![c] = "raised"]
                /\ texc' = [texc EXCEPT ![c] = Exc(r.outcome, "", 0, "", "")]
    /\ UNCHANGED <<tdays, tname, tdir, tproc, truns, tread, tdata, tresult,
                   dirs, files>>
    /\ UNCHANGED outsideTune

\* Faulty variant: days_analyzed without its bound.
DaysAnalyzedAny(d) == TRUE

\* models/autotune.py line 41: days_analyzed is an int with ge=1.
DaysAnalyzedOk(d) == d >= 1

\* service lines 71-82: AutotuneRecommendations(..., days_analyzed=days)
\* with days_analyzed >= 1, then the return.
WrapResult(c) ==
    /\ tpc[c] = "wrap"
    /\ IF DaysAnalyzedOk(tdays[c])
       THEN /\ tresult' = [tresult EXCEPT ![c] =
                [returned |-> TRUE, result |-> AutotuneResult(tdata[c]).model,
                 profile_name |-> tname[c], days_analyzed |-> tdays[c]]]
            /\ tpc' = [tpc EXCEPT ![c] = "done"]
            /\ texc' = texc
       ELSE /\ tresult' = tresult
            /\ tpc' = [tpc EXCEPT ![c] = "raised"]
            /\ texc' = [texc EXCEPT ![c] = Exc("ValidationError", "", 0, "", "")]
    /\ UNCHANGED <<tdays, tname, tdir, tproc, truns, tread, tdata, dirs, files>>
    /\ UNCHANGED outsideTune

InitTune ==
    /\ CallIdle
    /\ ApplyIdle
    /\ HistIdle
    /\ SyncIdle
    /\ ClientIdle
    /\ tpc = [c \in Calls |-> "idle"]
    /\ \E args \in [Calls -> TuneArgs] :
         /\ Ordered(args)
         /\ tdays = [c \in Calls |-> args[c].days]
         /\ tname = [c \in Calls |-> args[c].profile_name]
    /\ tdir = [c \in Calls |-> 0]
    /\ tproc = [c \in Calls |-> NoRun]
    /\ truns = [c \in Calls |-> 0]
    /\ tread = [c \in Calls |-> FALSE]
    /\ tdata = [c \in Calls |-> NoDoc]
    /\ texc = [c \in Calls |-> NoExc]
    /\ tresult = [c \in Calls |-> NoRecommendations]
    /\ dirs = {}
    /\ files = {}

NextTune ==
    \E c \in Calls :
        \/ EnterTemporaryDirectory(c)
        \/ WriteInputs(c)
        \/ RunProcess(c)
        \/ CheckExists(c)
        \/ ReadOutput(c)
        \/ ExitTemporaryDirectory(c)
        \/ ValidateResult(c)
        \/ WrapResult(c)

SpecTune == InitTune /\ [][NextTune]_vars

\* ================================= sync_profile and update_profile
ProfileNames == {"Default", "Other"}

\* A profile kept in the stored document, told apart by its name.
Stored(n) == [timezone |-> n]

\* Answers of the store to the fetch: a document with one or with two
\* profiles whose defaultProfile is in the store; a document without a
\* defaultProfile key; a document whose defaultProfile names no profile of
\* the store; an empty array.
FetchReplies ==
    { Reply("list", TRUE, "Default", [n \in {"Default"} |-> Stored(n)]),
      Reply("list", TRUE, "Default", [n \in ProfileNames |-> Stored(n)]),
      Reply("list", FALSE, "", [n \in {"Default"} |-> Stored(n)]),
      Reply("list", TRUE, "Other", [n \in {"Default"} |-> Stored(n)]),
      Reply("empty", FALSE, "", <<>>) }

\* client lines 63-89, _get_profiles on an answered request: `if not data`
\* raises ValueError, NightscoutProfile(**profile_doc) raises a
\* ValidationError when the required defaultProfile is missing, else the
\* document comes back as a model whose store holds ProfileStore models.
GetProfilesResult(r) ==
    IF r.shape = "empty"
    THEN [exc |-> Exc("ValueError", "No profiles found in Nightscout", 0, "", ""),
          profile |-> NoObj]
    ELSE IF ~ r.hasDefault
    THEN [exc |-> Exc("ValidationError", "defaultProfile: Field required", 0, "", ""),
          profile |-> NoObj]
    ELSE [exc |-> NoExc,
          profile |-> Obj("model",
              [defaultProfile |-> r.defaultProfile,
               store |-> [n \in DOMAIN r.store |-> Obj("model", r.store[n])]])]

\* models/nightscout.py lines 80-83, NightscoutProfile.default_profile:
\* self.store[self.defaultProfile], a KeyError when the name is no key.
DefaultProfileResult(p) ==
    IF p.value.defaultProfile \in DOMAIN p.value.store
    THEN [exc |-> NoExc, profile |-> p.value.store[p.value.defaultProfile]]
    ELSE [exc |-> Exc("KeyError", p.value.defaultProfile, 0, "", ""),
          profile |-> NoObj]

\* `key in obj`: a dict looks the key up; a pydantic model has no
\* __contains__, so its __iter__ is used, which yields (name, value) pairs,
\* none of which equals a string.
Contains(obj, key) ==
    IF obj.kind = "dict" THEN key \in DOMAIN obj.value ELSE FALSE

\* `obj[key] = value`: a pydantic model supports no item assignment.
SetItemRaises(obj) == obj.kind # "dict"

\* client lines 253-256: `if "store" not in current_profile:
\* current_profile["store"] = {}`, then the assignment under
\* `target_profile`, a name that is bound nowhere in the function.
StoreUpdateRaises(cur) ==
    IF ~ Contains(cur, "store") /\ SetItemRaises(cur)
    THEN Exc("TypeError", "object does not support item assignment", 0, "", "")
    ELSE Exc("NameError", "name 'target_profile' is not defined", 0, "", "")

\* BaseModel.model_dump(): the model's content as a dict.
ModelDump(m) == Obj("dict", m.value)

\* A request to the store: its method, its JSON body and what came of it.
Request(method, body, status) ==
    [method |-> method, body |-> body, status |-> status]

\* service lines 160-162: the profile is dumped and update_profile called.
SyncProfile ==
    /\ spc = "start"
    /\ sdata' = ModelDump(sprofile)
    /\ spc' = "fetch"
    /\ UNCHANGED <<sname, sprofile, sreply, scur, sexc, sreqs, sresult>>
    /\ UNCHANGED outsideSync

\* client line 250, self._get_profiles(): the fetch is not inside a try
\* block, so a transport error leaves update_profile as it is.
GetProfiles ==
    /\ spc = "fetch"
    /\ \/ \E e \in TransportErrors :
            /\ sreqs' = Append(sreqs, Request("GET", NoObj, e))
            /\ sexc' = Exc(e, "", 0, "", "")
            /\ spc' = "raised"
            /\ UNCHANGED <<sreply, scur>>
       \/ \E r \in FetchReplies :
            /\ sreqs' = Append(sreqs, Request("GET", NoObj, "ok"))
            /\ sreply' = r
            /\ sexc' = GetProfilesResult(r).exc
            /\ scur' = GetProfilesResult(r).profile
            /\ spc' = IF GetProfilesResult(r).exc = NoExc THEN "default"
                      ELSE "raised"
    /\ UNCHANGED <<sname, sprofile, sdata, sresult>>
    /\ UNCHANGED outsideSync

\* client line 250, `.default_profile`
DefaultProfile ==
    /\ spc = "default"
    /\ sexc' = DefaultProfileResult(scur).exc
    /\ scur' = DefaultProfileResult(scur).profile
    /\ spc' = IF DefaultProfileResult(scur).exc = NoExc THEN "store"
              ELSE "raised"
    /\ UNCHANGED <<sname, sprofile, sdata, sreply, sreqs, sresult>>
    /\ UNCHANGED outsideSync

\* client lines 253-256.  Every way through these lines ends in an
\* exception, so the POST of lines 267-275 (on `self.session`, an attribute
\* the client does not have) is never reached.
UpdateStore ==
    /\ spc = "store"
    /\ sexc' = StoreUpdateRaises(scur)
    /\ spc' = "raised"
    /\ UNCHANGED <<sname, sprofile, sdata, sreply, scur, sreqs, sresult>>
    /\ UNCHANGED outsideSync

InitSync ==
    /\ CallIdle
    /\ ApplyIdle
    /\ HistIdle
    /\ TuneIdle
    /\ ClientIdle
    /\ spc = "start"
    /\ sname \in {NoName} \cup {Name(n) : n \in ProfileNames}
    /\ \E nC \in 0..MaxSched, nS \in 0..MaxSched, nB \in 0..MaxSched :
         LET p == ProfileStore(nC, nS, nB)
         IN  sprofile = Obj("model", View(p.heap, p.addr))
    /\ sdata = NoObj
    /\ sreply = NoReply
    /\ scur = NoObj
    /\ sexc = NoExc
    /\ sreqs = <<>>
    /\ sresult = NoObj

NextSync ==
    \/ SyncProfile
    \/ GetProfiles
    \/ DefaultProfile
    \/ UpdateStore

SpecSync == InitSync /\ [][NextSync]_vars

\* ======================== NightscoutClient: construction and get_profile
\* client lines 38-43: Retry(total=3, status_forcelist=[429, 500, 502,
\* 503, 504]).
RetryTotal == 3
StatusForcelist == {429, 500, 502, 503, 504}

\* Statuses the store may answer with.
Statuses == {200, 404, 501} \cup StatusForcelist

\* client lines 20-32: NightscoutClient is a pydantic BaseModel with the
\* plain fields url, api_secret and timeout, and no validator.  A
\* BaseModel takes keyword arguments only; every string is a valid `url`.
ConstructRaises(how, scheme) ==
    IF how = "positional"
    THEN Exc("TypeError", "takes 1 positional argument", 0, "", "")
    ELSE NoExc

\* client lines 44-45: the adapter with the retry strategy is mounted for
\* "https://" only; an http:// URL goes through the session's default
\* adapter, which retries no status.
Retrying(scheme) == scheme = "https"

\* urllib3 Retry.increment: each retry takes one off `total`.
RetriesLeft(used) == RetryTotal - used

\* Faulty variant: every error status is retried.
IsRetryStatusAnyError(status) == status >= 400

\* urllib3 Retry.is_retry: the status is in status_forcelist.
IsRetryStatus(status) == status \in StatusForcelist

\* client lines 75-76 under the mounted adapter: one attempt of the GET.
\* A status to retry on is retried while retries are left, and ends the
\* request with RetryError when none is left; any other response is
\* returned, and raise_for_status raises HTTPError for a status >= 400.
Attempt ==
    /\ cpc = "send"
    /\ \E status \in Statuses :
         LET used == Len(cstatuses)
             retry == Retrying(curl) /\ IsRetryStatus(status)
         IN  /\ cstatuses' = Append(cstatuses, status)
             /\ IF retry /\ RetriesLeft(used) > 0
                THEN /\ cpc' = "send"
                     /\ cexc' = cexc
                ELSE IF retry
                THEN /\ cpc' = "raised"
                     /\ cexc' = Exc("RetryError", "too many error responses",
                                    0, "", "")
                ELSE IF status >= 400
                THEN /\ cpc' = "raised"
                     /\ cexc' = Exc("HTTPError", "", status, "", "")
                ELSE /\ cpc' = "response"
                     /\ cexc' = cexc
    /\ UNCHANGED <<curl, chow, cname, creply, cavail, cret>>
    /\ UNCHANGED outsideClient

\* The constructor call (client lines 20-32; the service calls it by
\* position at nightscout_service.py line 35).
Construct ==
    /\ cpc = "construct"
    /\ cexc' = ConstructRaises(chow, curl)
    /\ cpc' = IF ConstructRaises(chow, curl) = NoExc THEN "send" ELSE "raised"
    /\ UNCHANGED <<curl, chow, cname, cstatuses, creply, cavail, cret>>
    /\ UNCHANGED outsideClient

\* Faulty variant: a name that is no key gives the first profile.
StoreGetOrFirst(store, name) ==
    IF name \in DOMAIN store THEN store[name]
    ELSE store[CHOOSE n \in DOMAIN store : TRUE]

\* client line 106, profiles.store.get(profile_name): None for a name that
\* is no key.
StoreGet(store, name) ==
    IF name \in DOMAIN store THEN store[name] ELSE NoObj

\* `not x`: None is falsy, a pydantic model is truthy.
Falsy(x) == x.kind = "none"

NotFound == Exc("ValueError", "Profile not found", 0, "", "")

\* client lines 77-89 and 105-112: the body is parsed and validated, then
\* the named profile is looked up in the store.
GetProfile ==
    /\ cpc = "response"
    /\ \E r \in FetchReplies :
         LET got == GetProfilesResult(r)
         IN  /\ creply' = r
             /\ IF got.exc # NoExc
                THEN /\ cexc' = got.exc
                     /\ cpc' = "raised"
                     /\ UNCHANGED <<cavail, cret>>
                ELSE IF Falsy(StoreGet(got.profile.value.store, cname))
                THEN /\ cexc' = NotFound
                     /\ cavail' = DOMAIN got.profile.value.store
                     /\ cpc' = "raised"
                     /\ cret' = cret
                ELSE /\ cret' = StoreGet(got.profile.value.store, cname)
                     /\ cpc' = "done"
                     /\ UNCHANGED <<cexc, cavail>>
    /\ UNCHANGED <<curl, chow, cname, cstatuses>>
    /\ UNCHANGED outsideClient

InitClient ==
    /\ CallIdle
    /\ ApplyIdle
    /\ HistIdle
    /\ TuneIdle
    /\ SyncIdle
    /\ cpc = "construct"
    /\ curl \in {"https", "http"}
    /\ chow \in {"keyword", "positional"}
    /\ cname \in ProfileNames
    /\ cstatuses = <<>>
    /\ creply = NoReply
    /\ cexc = NoExc
    /\ cavail = {}
    /\ cret = NoObj

NextClient ==
    \/ Construct
    \/ Attempt
    \/ GetProfile

SpecClient == InitClient /\ [][NextClient]_vars

\* ====================================================== properties
Returned == pc = "done"

Result == View(heap, updated)

\* C1: apply_recommendations does not mutate the profile it is given: at
\* every point of the call, and after it until the caller itself writes to
\* that profile, every field of the input profile (dia, the five schedules
\* entry by entry, timezone, units) equals its value when the call started.
C1_InputNotMutated ==
    (pc # "idle" /\ wrote # "input") => View(heap, profile) = orig

\* The call returned a profile that differs from a non-empty input.
C1_Witness ==
    /\ Returned
    /\ Len(orig.carbratio) > 0 /\ Len(orig.basal) > 0
    /\ Result.carbratio # orig.carbratio
    /\ Result.basal # orig.basal

\* C2: with a non-empty recommended basal schedule, the returned basal
\* schedule has one entry per recommended entry, in the recommendation's
\* order, each carrying that entry's rate, and every entry is an object
\* constructed after the copy (none is an entry of the original schedule or
\* a copy of one).
C2_BasalReplaced ==
    (Returned /\ Len(rec.basalprofile) > 0) =>
        LET items == heap[heap[updated].basal].items
        IN  /\ Len(items) = Len(rec.basalprofile)
            /\ \A i \in 1..Len(items) :
                 /\ heap[items[i]].value = rec.basalprofile[i].rate
                 /\ items[i] > updated
                 /\ items[i] \notin Reach(heap, profile)

\* Two recommended entries with different rates replace a non-empty schedule.
C2_Witness ==
    /\ Returned
    /\ Len(rec.basalprofile) = 2
    /\ rec.basalprofile[1].rate # rec.basalprofile[2].rate
    /\ Len(orig.basal) > 0

\* C3 as stated: with an empty recommended basal schedule the returned
\* profile has an empty basal schedule.
C3_EmptyBasalClears ==
    (Returned /\ Len(rec.basalprofile) = 0) => Len(Result.basal) = 0

\* C3 amended: with an empty recommended basal schedule the returned
\* profile keeps the input's basal schedule, entry by entry.
C3_EmptyBasalKeepsOriginal ==
    (Returned /\ Len(rec.basalprofile) = 0) => Result.basal = orig.basal

\* An empty recommendation met a profile that has basal entries.
C3_Witness ==
    /\ Returned
    /\ Len(rec.basalprofile) = 0
    /\ Len(orig.basal) > 0
    /\ Len(Result.basal) > 0

\* C4: the returned carb-ratio schedule has the input's N entries, each
\* with value carb_ratio, and the returned sensitivity schedule has the
\* input's M entries, each with value sens; every entry keeps the time and
\* timeAsSeconds of the input entry at its position.
C4_UniformOverride ==
    Returned =>
        /\ Len(Result.carbratio) = Len(orig.carbratio)
        /\ Len(Result.sens) = Len(orig.sens)
        /\ \A i \in 1..Len(orig.carbratio) :
             /\ Result.carbratio[i].value = rec.carb_ratio
             /\ Result.carbratio[i].time = orig.carbratio[i].time
             /\ Result.carbratio[i].timeAsSeconds = orig.carbratio[i].timeAsSeconds
        /\ \A i \in 1..Len(orig.sens) :
             /\ Result.sens[i].value = rec.sens
             /\ Result.sens[i].time = orig.sens[i].time
             /\ Result.sens[i].timeAsSeconds = orig.sens[i].timeAsSeconds

\* Schedules of different lengths whose values all differed from the
\* recommended scalars.
C4_Witness ==
    /\ Returned
    /\ Len(orig.carbratio) = 2 /\ Len(orig.sens) = 1
    /\ \A i \in 1..2 : orig.carbratio[i].value # rec.carb_ratio
    /\ orig.sens[1].value # rec.sens

\* A start time of the form HH:MM:SS, two decimal digits each.
IsHHMMSS(s) ==
    /\ Len(s) = 8
    /\ s[3] = ":" /\ s[6] = ":"
    /\ \A i \in {1, 2, 4, 5, 7, 8} : s[i] \in Digits

HH(s) == DigitVal(s[1]) * 10 + DigitVal(s[2])
MM(s) == DigitVal(s[4]) * 10 + DigitVal(s[5])

\* C5: a recommended basal entry that starts at 'HH:MM:SS' yields, at the
\* same position of the returned schedule, time 'HH:MM' (the first five
\* characters) and timeAsSeconds = HH*3600 + MM*60, whatever SS is.
C5_TimeConversion ==
    Returned =>
        \A i \in 1..Len(rec.basalprofile) :
            LET s == rec.basalprofile[i].start
            IN  IsHHMMSS(s) =>
                  /\ Result.basal[i].time = SubSeq(s, 1, 5)
                  /\ Result.basal[i].timeAsSeconds = HH(s) * 3600 + MM(s) * 60

\* '06:30:59' became '06:30' / 23400 at a position where the input profile
\* stored another timeAsSeconds.
C5_Witness ==
    /\ Returned
    /\ Len(rec.basalprofile) > 0
    /\ rec.basalprofile[1].start = <<"0","6",":","3","0",":","5","9">>
    /\ Result.basal[1].time = <<"0","6",":","3","0">>
    /\ Result.basal[1].timeAsSeconds = 23400
    /\ Len(orig.basal) > 0
    /\ orig.basal[1].timeAsSeconds # 23400

\* C6: the returned dia is the recommendation's dia when it carries one, and
\* the input profile's dia when it carries none.
C6_Dia ==
    Returned =>
        Result.dia = (IF rec.dia # None THEN rec.dia ELSE orig.dia)

\* A recommendation without dia left the input's dia in the result.
C6_Witness ==
    /\ Returned
    /\ rec.dia = None
    /\ Result.dia = orig.dia
    /\ Result.dia > 0

\* C7: target_low, target_high, timezone and units of the returned profile
\* equal those of the input profile.
C7_TargetsUntouched ==
    Returned =>
        /\ Result.target_low = orig.target_low
        /\ Result.target_high = orig.target_high
        /\ Result.timezone = orig.timezone
        /\ Result.units = orig.units

\* The call rewrote the tuned schedules of a profile that has targets.
C7_Witness ==
    /\ Returned
    /\ Len(orig.target_low) > 0 /\ Len(orig.target_high) > 0
    /\ Len(orig.sens) > 0
    /\ Result.sens # orig.sens

\* C8 as stated: for every schema-valid profile and recommendation the call
\* raises no error.
C8_NeverRaises == pc # "raised"

\* C9: the returned profile shares no mutable object with the input
\* profile, so a write to one of them after the call leaves the other as
\* it was.
C9_NoSharedStructure ==
    /\ pc \in {"done", "written"} =>
         Reach(heap, updated) \cap Reach(heap, profile) = {}
    /\ (pc = "written" /\ wrote = "result") => View(heap, profile) = orig
    /\ (pc = "written" /\ wrote = "input") => View(heap, updated) = retval

\* The caller changed a target entry of the returned profile.
C9_Witness ==
    /\ pc = "written"
    /\ wrote = "result"
    /\ View(heap, updated).target_high # retval.target_high
    /\ View(heap, profile).target_high = retval.target_high

\* Positions of the raw list that pass validation, and the place a passing
\* position takes among them.
ValidEntryIdx == {i \in 1..Len(raw_entries) : NightscoutEntry(raw_entries[i]).outcome = "ok"}

ValidTreatmentIdx ==
    {i \in 1..Len(raw_treatments) : NightscoutTreatment(raw_treatments[i]).outcome = "ok"}

Rank(S, i) == Cardinality({j \in S : j <= i})

C11_BothQueriesOrError ==
    /\ hpc \in {"validate_entries", "validate_treatments", "build", "done"} =>
         /\ Len(sent) = 2
         /\ sent[1].op = "entries" /\ sent[1].status = "ok"
         /\ sent[2].op = "treatments" /\ sent[2].status = "ok"
    /\ \A k \in 1..Len(sent) :
         sent[k].status # "ok" =>
             /\ k = Len(sent)
             /\ hpc = "raised"
             /\ hexc = sent[k].status
             /\ hresult.entries = <<>> /\ hresult.treatments = <<>>
             /\ entries = <<>> /\ treatments = <<>>

\* The entries query returned records and the treatments query then failed.
C11_Witness ==
    /\ hpc = "raised"
    /\ Len(sent) = 2
    /\ sent[1].status = "ok"
    /\ sent[2].status = "ConnectionError"
    /\ Len(raw_entries) > 0
    /\ hexc = "ConnectionError"

\* C12: the window recorded in the returned dataset is the window that was
\* sent to the store in the call's entries and treatments queries (same
\* start, same end), and its start is its end minus `days` days.
C12_TagIsQueriedWindow ==
    hpc = "done" =>
        /\ hresult.start_date = StartDate(hresult.end_date, days)
        /\ \A k \in 1..Len(sent) :
             /\ sent[k].start = hresult.start_date
             /\ sent[k].end = hresult.end_date

\* Instants, in seconds, of a validated entry (`date` is in milliseconds)
\* and of a validated treatment.
EntryInstant(e) == e.date.v \div 1000
TreatmentInstant(t) == t.created_at.v

\* C13: every entry and every treatment of a returned dataset has its
\* timestamp inside the dataset's [start_date, end_date] window, whatever
\* records the store returned.
C13_ConfinedToWindow ==
    hpc = "done" =>
        /\ \A i \in 1..Len(hresult.entries) :
             /\ hresult.start_date <= EntryInstant(hresult.entries[i])
             /\ EntryInstant(hresult.entries[i]) <= hresult.end_date
        /\ \A i \in 1..Len(hresult.treatments) :
             /\ hresult.start_date <= TreatmentInstant(hresult.treatments[i])
             /\ TreatmentInstant(hresult.treatments[i]) <= hresult.end_date

\* The run_autotune call of invocation c is over: it returned to
\* run_analysis or its exception is on the way to the caller.
ClientLeft(c) == tpc[c] \in {"validate", "wrap", "done", "raised"}

\* C14: when the external process exits with code 0 and there is no
\* recommendations file in the working directory, run_autotune fails with
\* the "no output" ValueError; nothing is read, parsed or returned, so no
\* partial, empty or default recommendation comes back.
C14_NoOutputFails ==
    \A c \in Calls :
        (tproc[c].outcome = "exited" /\ tproc[c].code = 0
            /\ tproc[c].output = NoDoc) =>
            /\ tpc[c] \in {"exists", "exit", "raised"}
            /\ tpc[c] \in {"exit", "raised"} => texc[c] = NoOutput
            /\ ~ tread[c]
            /\ tdata[c] = NoDoc
            /\ tresult[c] = NoRecommendations

\* The process exited with 0, left no file, and the call raised.
C14_Witness ==
    \E c \in Calls :
        /\ tpc[c] = "raised"
        /\ tproc[c] = Run("exited", 0, "ok", "", NoDoc)
        /\ texc[c].msg = "Autotune did not produce recommendations file"

\* C15: run_autotune hands back a parsed output only if the process
\* exited with code 0 within the timeout.  After a timeout the call fails
\* with the timeout ValueError; after a non-zero exit it fails with the
\* CalledProcessError that carries the exit code and the captured stdout
\* and stderr.  In both cases the output file is not read, even when the
\* process left one.
C15_OnlyCleanExitReturns ==
    \A c \in Calls :
        /\ (tread[c] \/ tdata[c] # NoDoc \/ tresult[c].returned) =>
               (tproc[c].outcome = "exited" /\ tproc[c].code = 0)
        /\ tproc[c].outcome = "timeout" =>
               /\ tpc[c] \in {"exit", "raised"}
               /\ texc[c] = TimedOut
        /\ (tproc[c].outcome = "exited" /\ tproc[c].code # 0) =>
               /\ tpc[c] \in {"exit", "raised"}
               /\ texc[c].type = "CalledProcessError"
               /\ texc[c].returncode = tproc[c].code
               /\ texc[c].stdout = tproc[c].stdout
               /\ texc[c].stderr = tproc[c].stderr

\* One invocation timed out and another exited with code 2, each after the
\* process had left an output file, and both raised.
C15_Witness ==
    \E c, d \in Calls :
        /\ tpc[c] = "raised" /\ tpc[d] = "raised"
        /\ tproc[c] = Run("timeout", 0, "", "", ValidDoc)
        /\ tproc[d] = Run("exited", 2, "partial", "", ValidDoc)
        /\ texc[d].stdout = "partial"
        /\ ~ tread[c] /\ ~ tread[d]

\* A parsed output object lacks a required field, or holds a value outside
\* its bound (carb_ratio, sens and dia must be > 0).
MissingField(d) ==
    \/ d.basalprofile.t = "absent"
    \/ d.carb_ratio.t = "absent"
    \/ d.sens.t = "absent"

OutOfBound(d) ==
    \/ (d.carb_ratio.t = "int" /\ d.carb_ratio.v <= 0)
    \/ (d.sens.t = "int" /\ d.sens.v <= 0)
    \/ (d.dia.t = "int" /\ d.dia.v <= 0)

\* C16: when the process succeeds and its output object misses a required
\* field or holds an out-of-bound value, run_analysis raises a
\* ValidationError and returns no recommendation; the output is never
\* accepted in part.
C16_MalformedOutputRaises ==
    \A c \in Calls :
        (tproc[c].outcome = "exited" /\ tproc[c].code = 0
            /\ tproc[c].output.shape = "dict"
            /\ (MissingField(tproc[c].output) \/ OutOfBound(tproc[c].output))) =>
            /\ tpc[c] \notin {"wrap", "done"}
            /\ tresult[c] = NoRecommendations
            /\ tpc[c] = "raised" => texc[c].type = "ValidationError"

\* One invocation got an output without `sens`, another an output with
\* carb_ratio 0, and both raised.
C16_Witness ==
    \E c, d \in Calls :
        /\ tpc[c] = "raised" /\ tpc[d] = "raised"
        /\ tproc[c].output = MissingSensDoc /\ tproc[c].code = 0
        /\ tproc[d].output = ZeroCarbRatioDoc /\ tproc[d].code = 0
        /\ tread[c] /\ tread[d]

\* C17: on every way out of run_autotune (return, timeout, non-zero exit,
\* missing output file, unparsable output file) the directory the call
\* made, and every input and output file in it, is gone by the time the
\* call has returned or raised.
C17_WorkingDirectoryRemoved ==
    \A c \in Calls :
        ClientLeft(c) =>
            /\ tdir[c] # 0
            /\ tdir[c] \notin dirs
            /\ \A f \in files : f.dir # tdir[c]

\* One invocation returned and another failed on an unparsable output
\* file; nothing is left of either directory.
C17_Witness ==
    \E c, d \in Calls :
        /\ tpc[c] = "done"
        /\ tpc[d] = "raised" /\ texc[d].type = "JSONDecodeError"
        /\ dirs = {}
        /\ files = {}

\* update_profile is over, by return or by exception.
SyncEnded == spc \in {"done", "raised"}

\* The name the call is to write under: the explicit profile_name, else
\* the fetched document's defaultProfile.
ResolvedName == IF sname.given THEN sname.name ELSE sreply.defaultProfile

\* The stored document is a valid profile document: it has a
\* defaultProfile that names a profile of its store.
ValidDocument ==
    /\ sreply.shape = "list"
    /\ sreply.hasDefault
    /\ sreply.defaultProfile \in DOMAIN sreply.store

\* The write requests of the call.
Posts == {k \in 1..Len(sreqs) : sreqs[k].method = "POST"}

\* C18: a profile sync against a store holding a valid document succeeds,
\* and the document it writes holds the given profile data under the
\* resolved target name: the explicit profile_name when one is given,
\* otherwise the document's current defaultProfile.
C18_WrittenUnderResolvedName ==
    (SyncEnded /\ ValidDocument) =>
        /\ spc = "done"
        /\ \E k \in Posts :
             /\ sreqs[k].body.kind = "dict"
             /\ ResolvedName \in DOMAIN sreqs[k].body.value.store
             /\ sreqs[k].body.value.store[ResolvedName] = sdata

\* C19: a sync without an explicit profile name against a stored document
\* that carries no defaultProfile fails with the unresolved-name error
\* ("No profile name specified"), and no write request has been sent.
C19_UnresolvedNameError ==
    (SyncEnded /\ ~ sname.given /\ sreply.shape = "list"
        /\ ~ sreply.hasDefault) =>
        /\ spc = "raised"
        /\ Posts = {}
        /\ sexc.msg = "No profile name specified"

\* C20: update_profile with an explicit profile name against a store
\* holding a valid document sends exactly one fetch and then exactly one
\* write, and returns the store's response to the write; a transport
\* failure of either request leaves the call unchanged.
C20_OneFetchOneWrite ==
    /\ (SyncEnded /\ sname.given /\ ValidDocument) =>
           /\ Len(sreqs) = 2
           /\ sreqs[1].method = "GET"
           /\ sreqs[2].method = "POST"
           /\ \/ spc = "done" /\ sreqs[2].status = "ok"
                    /\ sresult.kind = "dict"
              \/ spc = "raised" /\ sexc.type = sreqs[2].status
    /\ \A k \in 1..Len(sreqs) :
           sreqs[k].status # "ok" =>
               (spc = "raised" /\ sexc.type = sreqs[k].status)

\* C21: a NightscoutClient cannot be constructed for a URL that does not
\* use HTTPS: construction with an http:// URL fails with the error "must
\* use HTTPS", so no request is sent to a non-encrypted endpoint.
C21_HttpRejected ==
    (curl = "http" /\ cpc \notin {"idle", "construct"}) =>
        /\ cpc = "raised"
        /\ cexc.type = "ValueError"
        /\ cexc.msg = "must use HTTPS"
        /\ cstatuses = <<>>

\* C22: for a request to an HTTPS endpoint, a response with status 429,
\* 500, 502, 503 or 504 causes a retry; at most 3 retries (4 attempts) are
\* made per request; when they are used up the failure reaches the caller
\* as an error; no other status is retried.
C22_BoundedRetries ==
    curl = "https" =>
        /\ Len(cstatuses) <= RetryTotal + 1
        /\ \A k \in 1..(Len(cstatuses) - 1) :
             cstatuses[k] \in {429, 500, 502, 503, 504}
        /\ (cpc = "send" /\ cstatuses # <<>>) =>
             /\ cstatuses[Len(cstatuses)] \in {429, 500, 502, 503, 504}
             /\ Len(cstatuses) <= RetryTotal
        /\ (cstatuses # <<>>
              /\ cstatuses[Len(cstatuses)] \in {429, 500, 502, 503, 504}) =>
             \/ cpc = "send"
             \/ /\ Len(cstatuses) = RetryTotal + 1
                /\ cpc = "raised"
                /\ cexc.type = "RetryError"

\* Four attempts were answered 503, 429, 500, 504 and the call raised.
C22_Witness ==
    /\ curl = "https"
    /\ cstatuses = <<503, 429, 500, 504>>
    /\ cpc = "raised"
    /\ cexc.type = "RetryError"

C24_RecommendationsCarryArguments ==
    \A c \in Calls :
        /\ tresult[c].returned =>
             /\ tresult[c].profile_name = tname[c]
             /\ tresult[c].days_analyzed = tdays[c]
             /\ tresult[c].days_analyzed >= 1
             /\ tproc[c].outcome = "exited" /\ tproc[c].code = 0
             /\ tproc[c].output.shape = "dict"
             /\ ~ MissingField(tproc[c].output)
             /\ ~ OutOfBound(tproc[c].output)
             /\ tresult[c].result.basalprofile = tproc[c].output.basalprofile
             /\ tresult[c].result.carb_ratio.v = tproc[c].output.carb_ratio.v
             /\ tresult[c].result.sens.v = tproc[c].output.sens.v
             /\ tresult[c].result.dia.v = tproc[c].output.dia.v
        /\ tdays[c] < 1 =>
             /\ ~ tresult[c].returned
             /\ tpc[c] # "done"

\* One call returned recommendations for "Other" over 1 day; another,
\* called with 0 days, raised although the process output was valid.
C24_Witness ==
    \E c, d \in Calls :
        /\ tresult[c].returned
        /\ tresult[c].profile_name = "Other"
        /\ tresult[c].days_analyzed = 1
        /\ tdays[d] = 0
        /\ tpc[d] = "raised"
        /\ tproc[d].output = ValidDoc /\ tproc[d].code = 0
        /\ tproc[d].outcome = "exited"

\* Invocation c is inside the with-block, after its inputs were written.
Working(c) == tpc[c] \in {"run", "exists", "read", "exit"}

\* C25: any two invocations of run_autotune, concurrent ones included,
\* work in distinct directories; the files in an invocation's directory
\* are the ones it or its own process wrote, what it reads is what its own
\* process wrote, and its files stay in place until it leaves the
\* directory itself, whatever the other invocations clean up.
C25_PrivateWorkingDirectory ==
    /\ \A c, d \in Calls :
         (c # d /\ tdir[c] # 0 /\ tdir[d] # 0) => tdir[c] # tdir[d]
    /\ \A c \in Calls :
         /\ \A f \in files :
              (f.dir = tdir[c] /\ f.name \in InputNames) => f.data = Dumped(c)
         /\ \A f \in files :
              (f.dir = tdir[c] /\ f.name = OutputName) =>
                  f.data = tproc[c].output
         /\ tdata[c] # NoDoc => tdata[c] = tproc[c].output
         /\ Working(c) =>
              /\ tdir[c] \in dirs
              /\ \A n \in InputNames : File(tdir[c], n, Dumped(c)) \in files
         /\ (tpc[c] \in {"exists", "read", "exit"}
               /\ tproc[c].output # NoDoc) =>
              File(tdir[c], OutputName, tproc[c].output) \in files

\* One invocation has left and cleaned up its directory while another is
\* about to read the output file its process wrote.
C25_Witness ==
    \E c, d \in Calls :
        /\ c # d
        /\ tpc[c] = "raised" /\ tdir[c] # 0
        /\ tpc[d] = "read"
        /\ File(tdir[d], OutputName, ValidDoc) \in files

\* C27: within one run_autotune call the external process is invoked at
\* most once, and only when the three input files are in place; after a
\* timeout, a non-zero exit or a missing output file the call ends
\* without invoking it again.
C27_ProcessRunsOnce ==
    \A c \in Calls :
        /\ truns[c] <= 1
        /\ tpc[c] = "run" =>
             /\ truns[c] = 0
             /\ \A n \in InputNames :
                  \E f \in files : f.dir = tdir[c] /\ f.name = n
        /\ truns[c] = 0 => tpc[c] \in {"idle", "write", "run"}
        /\ truns[c] >= 1 => tpc[c] \notin {"idle", "write", "run"}

\* A call whose process timed out has ended after one run.
C27_Witness ==
    \E c \in Calls :
        /\ tpc[c] = "raised"
        /\ tproc[c].outcome = "timeout"
        /\ truns[c] = 1

\* The entries of a schedule satisfy their field constraints: value above
\* (or, for basal rates, at) zero and timeAsSeconds at or above zero.
EntriesValid(sched, zeroAllowed) ==
    \A i \in 1..Len(sched) :
        /\ sched[i].timeAsSeconds >= 0
        /\ IF zeroAllowed THEN sched[i].value >= 0 ELSE sched[i].value > 0

\* C28: for every schema-valid profile and recommendation for which
\* apply_recommendations returns, the returned profile satisfies the
\* ProfileStore constraints: carbratio and sens values > 0, basal values
\* >= 0, every timeAsSeconds >= 0, and dia > 0.
C28_ResultIsValidProfile ==
    pc = "done" =>
        /\ Result.dia > 0
        /\ EntriesValid(Result.carbratio, FALSE)
        /\ EntriesValid(Result.sens, FALSE)
        /\ EntriesValid(Result.basal, TRUE)
        /\ EntriesValid(Result.target_low, FALSE)
        /\ EntriesValid(Result.target_high, FALSE)

\* A returned profile whose carb ratios, sensitivities and dia were
\* assigned and whose new basal schedule starts with a zero rate.
C28_Witness ==
    /\ pc = "done"
    /\ rec.dia # None /\ Result.dia = rec.dia
    /\ Len(Result.carbratio) > 0 /\ Result.carbratio[1].value = rec.carb_ratio
    /\ Len(Result.sens) > 0 /\ Result.sens[1].value = rec.sens
    /\ Len(rec.basalprofile) = 2
    /\ Result.basal[1].value = 0
    /\ Result.basal[2].timeAsSeconds > 0

\* C26: two invocations of apply_recommendations that run concurrently on
\* the same profile, with the same or different recommendations, each end
\* as the same invocation ends when it runs alone (same returned profile,
\* or same exception), under every interleaving of their statements; the
\* shared profile and the recommendations are unchanged.
EndsAsAlone(t) ==
    Finished(t.pc) =>
        \A k \in 1..2 :
            t.rec = recs[k] =>
                Outcome(heap, t.updated, t.pc, t.exc) = results[k]

C26_ConcurrentCallsAsAlone ==
    round = 3 =>
        /\ EndsAsAlone(Thread(rec, updated, pc, idx, exc))
        /\ EndsAsAlone(parked)
        /\ View(heap, given) = orig
        /\ {rec, parked.rec} = {recs[1], recs[2]}

\* Both threads have returned, with different recommendations, and their
\* statements were interleaved: the parked thread made its copy after the
\* running thread's copy and before the running thread's new basal list,
\* and its own basal list after that.
C26_Witness ==
    /\ round = 3
    /\ pc = "done" /\ parked.pc = "done"
    /\ recs[1] # recs[2]
    /\ updated < parked.updated
    /\ parked.updated < heap[updated].basal
    /\ heap[updated].basal < heap[parked.updated].basal
    /\ Result # View(heap, parked.updated)

\* C29: apply_recommendations is idempotent in the recommendation: applying
\* R to the profile apply_recommendations(P, R) returned gives a profile
\* equal to it field by field.
C29_Idempotent ==
    (round = 2 /\ pc = "done" /\ recs[2] = recs[1]) =>
        <<Result>> = results[1].value

\* The second application of a recommendation with two basal entries and a
\* dia, to a profile with entries in every schedule, has returned.
C29_Witness ==
    /\ round = 2 /\ pc = "done" /\ recs[2] = recs[1]
    /\ Complete(rec) /\ Len(rec.basalprofile) = 2
    /\ Len(Result.carbratio) > 0
    /\ Result # View(heap, given)

\* C30: a later complete recommendation overrides an earlier one: when R2
\* carries a dia and a non-empty basal schedule,
\* apply_recommendations(apply_recommendations(P, R1), R2) equals
\* apply_recommendations(P, R2) field by field.
C30_LaterCompleteOverrides ==
    (round = 3 /\ pc = "done" /\ Complete(recs[2])) =>
        <<Result>> = results[2].value

\* R1 is complete too and differs from R2 in every recommended value, the
\* profile has entries in every schedule, and all three calls returned.
C30_Witness ==
    /\ round = 3 /\ pc = "done" /\ Complete(recs[2])
    /\ Complete(recs[1])
    /\ recs[1].carb_ratio # recs[2].carb_ratio
    /\ recs[1].dia # recs[2].dia
    /\ recs[1].basalprofile # recs[2].basalprofile
    /\ Len(Result.carbratio) > 0
    /\ results[1].value # results[2].value
====
